---- MODULE Spec2Model ----
(***************************************************************************)
(* Model of the grasshopper UDP relay (hopper.go): the packet codec        *)
(* (decryptPacket / encryptPacket) and the relay engine (Listener.Start,   *)
(* Listener.clientIn, Listener.switcher, addClient / removeClient) on top  *)
(* of the gaio watcher's queue of reads and writes with deadlines.         *)
(***************************************************************************)
EXTENDS Integers, Sequences, FiniteSets, TLC

(***************************************************************************)
(* Program constants (hopper.go:41-58).                                    *)
(***************************************************************************)
nonceSize == 8
nonceOffset == 0
checksumSize == 8
checksumOffset == nonceSize
headerSize == nonceSize + checksumSize
mtuLimit == 1500

(***************************************************************************)
(* Bounds of the model.                                                    *)
(***************************************************************************)
\* longest payload handed to the codec
MaxPayloadLen == 9
\* a nil BlockCrypt (cipher method "none")
NoCrypt == 0
\* the cipher keys; a crypter is identified by its key
Keys == {1, 2}
Crypters == {NoCrypt} \cup Keys

\* a nil []byte; an empty, non-nil slice is << >>
NilSlice == <<-1>>

\* len() of a slice: len(nil) = 0
SliceLen(s) == IF s = NilSlice THEN 0 ELSE Len(s)

\* s[from:] of a slice, from counted from 0
SliceFrom(s, from) == SubSeq(s, from + 1, Len(s))

\* s[from:to] of a slice, counted from 0
SliceOf(s, from, to) == SubSeq(s, from + 1, to)

\* a buffer of the payload budget only
NewBufPayloadOnly == mtuLimit - headerSize

\* len() of the buffer of a read: make([]byte, mtuLimit) (hopper.go:170,
\* 225, 283)
NewBuf == mtuLimit

\* what a read into a buffer of len(buf) = n leaves of a datagram:
\* buf[:size], the datagram cut at n
ReadInto(n, datagram) ==
    IF Len(datagram) <= n THEN datagram ELSE SliceOf(datagram, 0, n)

(***************************************************************************)
(* The cipher adapters (BlockCrypt.Encrypt / BlockCrypt.Decrypt).  Each    *)
(* transforms a byte range into a byte range of the same length, keyed;    *)
(* Decrypt inverts Encrypt under the same key (cryptTest).  The keystream  *)
(* of byte i under key k is k * i.                                         *)
(***************************************************************************)
Encrypt(k, src) == [i \in 1..Len(src) |-> (src[i] + k * i) % 256]

Decrypt(k, src) == [i \in 1..Len(src) |-> (src[i] + 256 * k * i - k * i) % 256]

(***************************************************************************)
(* md5.Sum: a 16-byte digest of a byte string.  The digest here is a       *)
(* position-weighted sum, byte i of it weighted by i; WeightedSum adds up  *)
(* the bytes lo..hi of p, each times its position plus i, by halves.       *)
(***************************************************************************)
RECURSIVE WeightedSum(_, _, _, _)
WeightedSum(p, i, lo, hi) ==
    IF lo > hi THEN 0
    ELSE IF lo = hi THEN p[lo] * (i + lo)
    ELSE LET mid == (lo + hi) \div 2
         IN  WeightedSum(p, i, lo, mid) + WeightedSum(p, i, mid + 1, hi)

md5Sum(p) ==
    [i \in 1..16 |-> (Len(p) * 13 + i * 17 + WeightedSum(p, i, 1, Len(p))) % 256]

\* decryptPacket comparing the digest with the nonce field instead of the
\* checksum field
decryptPacketNonceTag(crypter, packet) ==
    IF crypter # NoCrypt /\ Len(packet) >= headerSize
    THEN LET plain == Decrypt(crypter, packet)
             checksum == md5Sum(SliceFrom(plain, headerSize))
         IN  IF SliceOf(checksum, 0, checksumSize)
                  # SliceOf(plain, nonceOffset, nonceOffset + checksumSize)
             THEN [data |-> NilSlice, err |-> "errChecksum"]
             ELSE [data |-> SliceFrom(plain, headerSize), err |-> "nil"]
    ELSE IF crypter = NoCrypt
         THEN [data |-> packet, err |-> "nil"]
         ELSE [data |-> NilSlice, err |-> "nil"]

\* decryptPacket stripping a header whether or not a crypter is set
decryptPacketStrip(crypter, packet) ==
    IF Len(packet) >= headerSize
    THEN LET plain == IF crypter # NoCrypt THEN Decrypt(crypter, packet) ELSE packet
             checksum == md5Sum(SliceFrom(plain, headerSize))
         IN  IF crypter # NoCrypt
                /\ SliceOf(checksum, 0, checksumSize)
                      # SliceOf(plain, checksumOffset, checksumOffset + checksumSize)
             THEN [data |-> NilSlice, err |-> "errChecksum"]
             ELSE [data |-> SliceFrom(plain, headerSize), err |-> "nil"]
    ELSE IF crypter = NoCrypt
         THEN [data |-> packet, err |-> "nil"]
         ELSE [data |-> NilSlice, err |-> "nil"]

\* decryptPacket without the comparison of the tag
decryptPacketNoTag(crypter, packet) ==
    IF crypter # NoCrypt /\ Len(packet) >= headerSize
    THEN [data |-> SliceFrom(Decrypt(crypter, packet), headerSize), err |-> "nil"]
    ELSE IF crypter = NoCrypt
         THEN [data |-> packet, err |-> "nil"]
         ELSE [data |-> NilSlice, err |-> "nil"]

(***************************************************************************)
(* decryptPacket (hopper.go:315-329): the pair (data, err).                *)
(***************************************************************************)
decryptPacket(crypter, packet) ==
    IF crypter # NoCrypt /\ Len(packet) >= headerSize
    THEN LET plain == Decrypt(crypter, packet)
             checksum == md5Sum(SliceFrom(plain, headerSize))
         IN  IF SliceOf(checksum, 0, checksumSize)
                  # SliceOf(plain, checksumOffset, checksumOffset + checksumSize)
             THEN [data |-> NilSlice, err |-> "errChecksum"]
             ELSE [data |-> SliceFrom(plain, headerSize), err |-> "nil"]
    ELSE IF crypter = NoCrypt
         THEN [data |-> packet, err |-> "nil"]
         ELSE [data |-> NilSlice, err |-> "nil"]

\* encryptPacket taking the digest of the whole packet, header included
encryptPacketTagOverFrame(crypter, data, nonce) ==
    IF crypter # NoCrypt
    THEN LET payload == IF data = NilSlice THEN << >> ELSE data
             checksum == md5Sum(nonce \o [i \in 1..checksumSize |-> 0] \o payload)
         IN  Encrypt(crypter, nonce \o SliceOf(checksum, 0, checksumSize) \o payload)
    ELSE data

(***************************************************************************)
(* encryptPacket (hopper.go:333-348); nonce is what rand.Reader delivers.  *)
(***************************************************************************)
encryptPacket(crypter, data, nonce) ==
    IF crypter # NoCrypt
    THEN LET payload == IF data = NilSlice THEN << >> ELSE data
             checksum == md5Sum(payload)
         IN  Encrypt(crypter, nonce \o SliceOf(checksum, 0, checksumSize) \o payload)
    ELSE data

(***************************************************************************)
(* Inputs of the codec.                                                    *)
(***************************************************************************)
Seeds == {0, 3, 255}

\* a byte string of length n, byte i = seed * i + seed
Pattern(n, seed) == [i \in 1..n |-> (seed * i + seed) % 256]

Nonces == {Pattern(nonceSize, s) : s \in {0, 5}}

Payloads == {Pattern(n, s) : n \in 0..MaxPayloadLen, s \in Seeds}

\* raw datagrams of every length up to a header and a payload
RawFrames == {Pattern(n, s) : n \in 0..(headerSize + MaxPayloadLen), s \in Seeds}

\* frames that an encoder with key k produced
GoodFrames == {encryptPacket(k, Pattern(n, s), nc) :
                  k \in Keys, n \in {0, 1, MaxPayloadLen}, s \in Seeds, nc \in Nonces}

\* a frame with byte number pos (from 0) changed by one
Corrupt(f, pos) == [f EXCEPT ![pos + 1] = (@ + 1) % 256]

BadFrames == {Corrupt(f, pos) : f \in GoodFrames, pos \in {checksumOffset, headerSize - 1}}

CodecInputs == Payloads \cup RawFrames \cup GoodFrames \cup BadFrames

(***************************************************************************)
(* Bounds and inputs of the relay engine.                                  *)
(***************************************************************************)
\* the configured idle timeout (Listener.timeout), in clock ticks
Timeout == 2
\* the clock stops here
MaxTime == 2 * Timeout + 1
\* datagrams the listen socket receives in one run
MaxRecv == 2
\* datagrams the next hops send back in one run
MaxUp == 1

\* the client addresses that send to the listen socket
Clients == {"A", "B"}
\* the configured next hops (l.nextHops)
NextHops == {1, 2}
\* no entry in the incomingConnections map
NoConn == 0
\* raddr while clientIn is not running
NoAddr == "-"
\* writes the watcher holds at most when the listen socket delivers the next
\* datagram
MaxQueued == 1

\* the payload the clients and the next hops send
EnginePayload == Pattern(2, 3)
\* a datagram shorter than the header
ShortDatagram == Pattern(headerSize - 6, 3)
EngineNonce == Pattern(nonceSize, 5)

\* what a peer sends: a frame its encoder built, one with a damaged tag,
\* one shorter than the header
FrameKinds == {"good", "badtag", "short"}

\* the datagram of the given kind that a peer speaking cipher crypter sends
PeerFrame(crypter, kind) ==
    CASE kind = "good" -> encryptPacket(crypter, EnginePayload, Pattern(nonceSize, 0))
      [] kind = "badtag" ->
            Corrupt(encryptPacket(IF crypter = NoCrypt THEN 1 ELSE crypter,
                                  EnginePayload, Pattern(nonceSize, 0)), checksumOffset)
      [] OTHER -> ShortDatagram

\* the goroutines that call Close
Closers == {1, 2}

\* the callbacks a caller installs: none, one that returns its input, one
\* that returns nil
Callbacks == {"nil", "pass", "drop"}

\* OnClientInCallback / OnNextHopInCallback applied to a packet
Callback(cb, in) == IF cb = "drop" THEN NilSlice ELSE in

VARIABLES
    cPc,        \* codec harness: "init", "encoded", "decoded", "roundtrip"
    cCrypter,   \* the crypter handed to encryptPacket
    cDecrypter, \* the crypter handed to decryptPacket
    cInput,     \* the input slice
    cNonce,     \* the nonce rand.Reader delivered
    cFrame,     \* the result of encryptPacket
    cOut,       \* the result of decryptPacket
    crypterIn,  \* Listener.crypterIn
    crypterOut, \* Listener.crypterOut
    onClientIn, \* Listener.onClientIn
    onNextHopIn, \* Listener.onNextHopIn
    incomingConnections, \* Listener.incomingConnections: client -> conn
    conns,      \* the sockets net.Dial returned: the remote address of each
                \* and the client it was dialled for
    pending,    \* the watcher: per socket, the queued reads and writes
    pcIn,       \* where the ingress loop stands
    inRaddr,    \* clientIn: raddr
    inData,     \* clientIn: data
    inConn,     \* clientIn: conn
    now,        \* the clock
    nrecv,      \* datagrams received on the listen socket so far
    nup,        \* datagrams received from next hops so far
    lastKind,   \* the kind of the datagram the listen socket received last
    lastCalled, \* whether clientIn invoked onClientIn for that datagram
    lastArg,    \* the data clientIn handed to onClientIn for that datagram
    lastSeen,   \* per client: when a datagram of its session was last seen
    lastOk,     \* per client: when its session was created or an I/O of it
                \* last succeeded
    lastRes,    \* the result the switcher handled in the step that led here,
                \* whether it invoked onNextHopIn and with what, and the
                \* datagrams it wrote to the listen socket for it;
                \* NoRes after a step of another goroutine
    closePc,    \* per caller of Close: where it stands
    onceDone,   \* Listener.dieOnce has run its function
    dieClosed,  \* Listener.die is closed
    listenClosed, \* Listener.conn is closed
    watcherClosed, \* Listener.watcher is closed
    swPc,       \* the switcher: "wait" in its loop, "stopped" after return
    proc,       \* the process: "running", "exited", "panicked"
    teardowns,  \* how often the function handed to dieOnce.Do was entered
    startPc,    \* the start command: where Run stands
    flagCI,     \* config.CI, the value of --ci
    flagCO,     \* config.CO, the value of --co
    osEnv,      \* what the operating system answers to ListenWithOptions and
                \* how many next hops are configured
    listener,   \* the *Listener that ListenWithOptions returned, or "nil"
    listenErr,  \* the error that ListenWithOptions returned; "none" before
    exitCode,   \* the exit status of the process once log.Fatal has run
    hopCrypter, \* the ingress cipher of the relays that are the next hops
    wireUp,     \* the datagrams on their way from the relay to its next hops
    echoed,     \* the datagrams the echo server received and sent back to a
                \* next hop
    wire,       \* the datagrams on their way from the next hops to the relay
    sent,       \* the payloads the clients sent to the relay
    got,        \* the datagrams the relay wrote to the listen socket
    mu,         \* Listener.incomingConnectionsLock: "free" or the goroutine
                \* that holds it
    inLine,     \* the call the goroutine of Start is about to make
    swLine,     \* the call the goroutine of switcher is about to make
    swRes,      \* the result the switcher is handling
    leaked,     \* a socket bound to the listen address is open and no
                \* listener holds it
    listens     \* the calls of ListenWithOptions a program made so far

codecVars == <<cPc, cCrypter, cDecrypter, cInput, cNonce, cFrame, cOut>>

configVars == <<crypterIn, crypterOut, onClientIn, onNextHopIn>>

ingressVars == <<pcIn, inRaddr, inData, inConn>>

ghostVars == <<lastKind, lastCalled, lastArg, lastSeen, lastOk>>

lifeVars == <<closePc, onceDone, dieClosed, listenClosed, watcherClosed, swPc,
              proc, teardowns>>

engineVars == <<configVars, incomingConnections, conns, pending,
                ingressVars, now, nrecv, nup, ghostVars, lastRes, lifeVars>>

startVars == <<startPc, flagCI, flagCO, osEnv, listener, listenErr, exitCode>>

chainVars == <<hopCrypter, wireUp, echoed, wire, sent, got>>

lockVars == <<mu, inLine, swLine, swRes>>

bindVars == <<leaked, listens>>

auxVars == <<lockVars, bindVars>>

vars == <<codecVars, engineVars, startVars, chainVars, auxVars>>

NoResult == [data |-> NilSlice, err |-> "none"]

\* the switcher handled no result in the last step
NoRes ==
    [res |-> [op |-> "none", ctx |-> NoAddr, conn |-> NoConn, buf |-> NilSlice,
              err |-> "nil"],
     called |-> FALSE, arg |-> NilSlice, out |-> << >>]

\* the start command was not run: a program called ListenWithOptions itself,
\* as the tests do (hopper_test.go:69-84), and has its listener
StartOff ==
    /\ startPc = "off"
    /\ flagCI = "none"
    /\ flagCO = "none"
    /\ osEnv = [resolve |-> TRUE, bind |-> TRUE, setReadBuffer |-> TRUE,
                setWriteBuffer |-> TRUE, newWatcher |-> TRUE,
                nexthops |-> Cardinality(NextHops)]
    /\ listener = "Listener"
    /\ listenErr = "nil"
    /\ exitCode = 0

\* no chain of relays around the relay
ChainIdle ==
    /\ hopCrypter = NoCrypt
    /\ wireUp = << >>
    /\ wire = << >>
    /\ echoed = << >>
    /\ sent = << >>
    /\ got = << >>

\* nobody holds the mutex: Start is about to call ReadFrom, the switcher
\* WaitIO
LockIdle ==
    /\ mu = "free"
    /\ inLine = "ReadFrom"
    /\ swLine = "WaitIO"
    /\ swRes = NoRes.res

\* no socket without a listener
BindIdle ==
    /\ leaked = FALSE
    /\ listens = 0

AuxIdle == LockIdle /\ BindIdle

\* the codec harness at rest
CodecIdle ==
    /\ cPc = "init"
    /\ cCrypter = NoCrypt
    /\ cDecrypter = NoCrypt
    /\ cInput = << >>
    /\ cNonce = Pattern(nonceSize, 0)
    /\ cFrame = NilSlice
    /\ cOut = NoResult

\* the listener as ListenWithOptions returns it (hopper.go:149-161), Start
\* not yet in its first ReadFrom
ListenWithOptions ==
    /\ incomingConnections = [a \in Clients |-> NoConn]
    /\ conns = << >>
    /\ pending = << >>
    /\ pcIn = "recv"
    /\ inRaddr = NoAddr
    /\ inData = NilSlice
    /\ inConn = NoConn
    /\ lastKind = "none"
    /\ lastCalled = FALSE
    /\ lastArg = NilSlice
    /\ now = 0
    /\ nrecv = 0
    /\ nup = 0
    /\ lastSeen = [a \in Clients |-> 0]
    /\ lastOk = [a \in Clients |-> 0]
    /\ lastRes = NoRes
    /\ closePc = [k \in Closers |-> "idle"]
    /\ onceDone = FALSE
    /\ dieClosed = FALSE
    /\ listenClosed = FALSE
    /\ watcherClosed = FALSE
    /\ swPc = "wait"
    /\ proc = "running"
    /\ teardowns = 0

\* the engine at rest, for the codec harness
EngineIdle ==
    /\ crypterIn = NoCrypt
    /\ crypterOut = NoCrypt
    /\ onClientIn = "nil"
    /\ onNextHopIn = "nil"
    /\ ListenWithOptions

CodecInit ==
    /\ cPc = "init"
    /\ cCrypter \in Crypters
    /\ cDecrypter = NoCrypt
    /\ cInput \in CodecInputs
    /\ cNonce = Pattern(nonceSize, 0)
    /\ cFrame = NilSlice
    /\ cOut = NoResult
    /\ EngineIdle
    /\ StartOff
    /\ ChainIdle
    /\ AuxIdle

\* encryptPacket applied to the input
CodecEncode ==
    /\ cPc = "init"
    /\ \E nc \in Nonces :
          /\ cNonce' = nc
          /\ cFrame' = encryptPacket(cCrypter, cInput, nc)
    /\ cPc' = "encoded"
    /\ UNCHANGED <<cCrypter, cDecrypter, cInput, cOut, engineVars, startVars,
                   chainVars, auxVars>>

\* decryptPacket applied to the input
CodecDecode ==
    /\ cPc = "init"
    /\ cDecrypter' = cCrypter
    /\ cOut' = decryptPacket(cCrypter, cInput)
    /\ cPc' = "decoded"
    /\ UNCHANGED <<cCrypter, cInput, cNonce, cFrame, engineVars, startVars,
                   chainVars, auxVars>>

\* decryptPacket applied to the frame encryptPacket returned; the decoding
\* side has a cipher exactly when the encoding side has one
CodecRoundTrip ==
    /\ cPc = "encoded"
    /\ \E k \in Crypters :
          /\ (k = NoCrypt) <=> (cCrypter = NoCrypt)
          /\ cDecrypter' = k
          /\ cOut' = decryptPacket(k, cFrame)
    /\ cPc' = "roundtrip"
    /\ UNCHANGED <<cCrypter, cInput, cNonce, cFrame, engineVars, startVars,
                   chainVars, auxVars>>

CodecNext == CodecEncode \/ CodecDecode \/ CodecRoundTrip

CodecSpec == CodecInit /\ [][CodecNext]_vars

(***************************************************************************)
(* The watcher (gaio.Watcher) as hopper.go uses it.  It keeps, per socket, *)
(* the reads and the writes submitted and not yet completed, each with its *)
(* context and deadline, a read also with the length of the buffer it is   *)
(* to fill.  ReadTimeout and WriteTimeout append a request;                *)
(* a write of an empty buffer is refused, and so is every request once the *)
(* watcher is closed.  A write remembers, as seq, which datagram of the    *)
(* listen socket it carries.                                               *)
(***************************************************************************)
ReadTimeout(w, ctx, conn, buf, deadline) ==
    IF watcherClosed
    THEN w
    ELSE [w EXCEPT ![conn].readers =
                      Append(@, [ctx |-> ctx, buf |-> buf, deadline |-> deadline])]

WriteTimeout(w, ctx, conn, buf, deadline) ==
    IF watcherClosed \/ SliceLen(buf) = 0
    THEN w
    ELSE [w EXCEPT ![conn].writers =
                      Append(@, [ctx |-> ctx, buf |-> buf, deadline |-> deadline,
                                 seq |-> nrecv])]

\* the watcher without the oldest read, or write, of a socket
PopReader(w, conn) == [w EXCEPT ![conn].readers = Tail(@)]

PopWriter(w, conn) == [w EXCEPT ![conn].writers = Tail(@)]

RECURSIVE QueuedWritesUpTo(_, _)
QueuedWritesUpTo(w, c) ==
    IF c = 0 THEN 0 ELSE Len(w[c].writers) + QueuedWritesUpTo(w, c - 1)

\* the number of writes the watcher holds
QueuedWrites(w) == QueuedWritesUpTo(w, Len(w))

(***************************************************************************)
(* addClient / removeClient (hopper.go:290-301).                           *)
(***************************************************************************)
\* a lookup that is not keyed by the client: it finds the connection of any
\* client in the table
loadConnAny(tbl, raddr) ==
    IF \E a \in DOMAIN tbl : tbl[a] # NoConn
    THEN tbl[CHOOSE a \in DOMAIN tbl : tbl[a] # NoConn]
    ELSE NoConn

\* a lookup that finds no connection, whatever the table holds
loadConnNone(tbl, raddr) == NoConn

\* the lookup of clientIn (hopper.go:202-204); NoConn stands for ok = false
loadConn(tbl, raddr) == tbl[raddr]

addClient(tbl, raddr, conn) == [tbl EXCEPT ![raddr] = conn]

\* a removeClient that empties the table
removeClientAll(tbl, raddr) == [a \in DOMAIN tbl |-> NoConn]

\* a removeClient that deletes nothing
removeClientNone(tbl, raddr) == tbl

removeClient(tbl, raddr) == [tbl EXCEPT ![raddr] = NoConn]

\* clientIn going on after decryptPacket returned an error
clientInDataNoErr(packet, cin, cout, cb, nonce) ==
    LET dec == decryptPacket(cin, packet)
        data == IF cb # "nil" THEN Callback(cb, dec.data) ELSE dec.data
    IN  IF cb # "nil" /\ data = NilSlice
        THEN [drop |-> TRUE, called |-> TRUE, arg |-> dec.data, data |-> NilSlice]
        ELSE [drop |-> FALSE, called |-> cb # "nil",
              arg |-> IF cb # "nil" THEN dec.data ELSE NilSlice,
              data |-> encryptPacket(cout, data, nonce)]

(***************************************************************************)
(* clientIn, hopper.go:183-199: what is left of a datagram after the       *)
(* ingress decode, the onClientIn callback and the egress encode; drop     *)
(* tells that clientIn returned before the lookup, called that the         *)
(* callback was invoked, arg what it was invoked with.                     *)
(***************************************************************************)
clientInData(packet, cin, cout, cb, nonce) ==
    LET dec == decryptPacket(cin, packet)
        data == IF cb # "nil" THEN Callback(cb, dec.data) ELSE dec.data
    IN  IF dec.err # "nil"
        THEN [drop |-> TRUE, called |-> FALSE, arg |-> NilSlice, data |-> NilSlice]
        ELSE IF cb # "nil" /\ data = NilSlice
             THEN [drop |-> TRUE, called |-> TRUE, arg |-> dec.data,
                   data |-> NilSlice]
             ELSE [drop |-> FALSE, called |-> cb # "nil",
                   arg |-> IF cb # "nil" THEN dec.data ELSE NilSlice,
                   data |-> encryptPacket(cout, data, nonce)]

(***************************************************************************)
(* The ingress loop: Start (hopper.go:169-177) and clientIn.               *)
(***************************************************************************)
\* the frames a peer speaking cipher crypter sends; without a cipher every
\* datagram is a payload
PeerKinds(crypter) == IF crypter = NoCrypt THEN {"good"} ELSE FrameKinds

\* clientIn returns: its locals are gone
Return ==
    /\ pcIn' = "recv"
    /\ inRaddr' = NoAddr
    /\ inData' = NilSlice
    /\ inConn' = NoConn

\* ReadFrom returns the datagram packet, of the given kind, in a new buffer;
\* clientIn runs up to the lookup of the connection (hopper.go:170-204)
RecvFrom(raddr, kind, packet) ==
    /\ proc = "running"
    /\ ~listenClosed
    /\ pcIn = "recv"
    /\ nrecv < MaxRecv
    /\ LET r == clientInData(ReadInto(NewBuf, packet), crypterIn, crypterOut,
                             onClientIn, EngineNonce)
           conn == loadConn(incomingConnections, raddr)
       IN  /\ lastCalled' = r.called
           /\ lastArg' = r.arg
           /\ IF r.drop
              THEN Return
              ELSE /\ inRaddr' = raddr
                   /\ inData' = r.data
                   /\ inConn' = conn
                   /\ pcIn' = IF conn # NoConn THEN "write" ELSE "dial"
    /\ nrecv' = nrecv + 1
    /\ lastKind' = kind
    /\ lastSeen' = [lastSeen EXCEPT ![raddr] = now]
    /\ lastRes' = NoRes
    /\ UNCHANGED <<codecVars, startVars, configVars, incomingConnections, conns,
                   pending, now, nup, lastOk, lifeVars>>

\* a peer that speaks the ingress cipher sends a datagram
Recv(raddr, kind) ==
    /\ kind \in PeerKinds(crypterIn)
    /\ RecvFrom(raddr, kind, PeerFrame(crypterIn, kind))
    /\ UNCHANGED <<chainVars, auxVars>>

\* existing connection (hopper.go:207-208); clientIn returns
WriteExisting ==
    /\ proc = "running"
    /\ pcIn = "write"
    /\ pending' = WriteTimeout(pending, inRaddr, inConn, inData, now + Timeout)
    /\ Return
    /\ lastRes' = NoRes
    /\ UNCHANGED <<codecVars, startVars, chainVars, auxVars, configVars, incomingConnections, conns,
                   now, nrecv, nup, ghostVars, lifeVars>>

\* new connection: pick a next hop, dial it, register the client
\* (hopper.go:210-221)
DialOk(hop) ==
    /\ proc = "running"
    /\ pcIn = "dial"
    /\ conns' = Append(conns, [hop |-> hop, client |-> inRaddr])
    /\ pending' = Append(pending, [readers |-> << >>, writers |-> << >>])
    /\ inConn' = Len(conns) + 1
    /\ incomingConnections' = addClient(incomingConnections, inRaddr, Len(conns) + 1)
    /\ pcIn' = "watch"
    /\ lastOk' = [lastOk EXCEPT ![inRaddr] = now]
    /\ lastRes' = NoRes
    /\ UNCHANGED <<codecVars, startVars, chainVars, auxVars, configVars, inRaddr, inData, now,
                   nrecv, nup, lastKind, lastCalled, lastArg, lastSeen, lifeVars>>

\* a clientIn that registers the client before it looks at the error of
\* net.Dial
DialFailRegisters ==
    /\ proc = "running"
    /\ pcIn = "dial"
    /\ incomingConnections' = addClient(incomingConnections, inRaddr, Len(conns) + 1)
    /\ Return
    /\ lastRes' = NoRes
    /\ UNCHANGED <<codecVars, startVars, chainVars, auxVars, configVars, conns, pending,
                   now, nrecv, nup, ghostVars, lifeVars>>

\* net.Dial fails (hopper.go:213-216); clientIn returns
DialFail ==
    /\ proc = "running"
    /\ pcIn = "dial"
    /\ Return
    /\ lastRes' = NoRes
    /\ UNCHANGED <<codecVars, startVars, chainVars, auxVars, configVars, incomingConnections, conns, pending,
                   now, nrecv, nup, ghostVars, lifeVars>>

\* a clientIn that arms two reads on the new connection
WatchTwoReads ==
    /\ proc = "running"
    /\ pcIn = "watch"
    /\ pending' = ReadTimeout(ReadTimeout(pending, inRaddr, inConn, NewBuf,
                                          now + Timeout),
                              inRaddr, inConn, NewBuf, now + Timeout)
    /\ pcIn' = "send"
    /\ lastRes' = NoRes
    /\ UNCHANGED <<codecVars, startVars, chainVars, auxVars, configVars, incomingConnections,
                   conns, inRaddr, inData, inConn, now, nrecv, nup, ghostVars,
                   lifeVars>>

\* a clientIn that does not watch the new connection
WatchNothing ==
    /\ proc = "running"
    /\ pcIn = "watch"
    /\ pcIn' = "send"
    /\ lastRes' = NoRes
    /\ UNCHANGED <<codecVars, startVars, chainVars, auxVars, configVars, incomingConnections,
                   conns, pending, inRaddr, inData, inConn, now, nrecv, nup,
                   ghostVars, lifeVars>>

\* watch the connection (hopper.go:225)
Watch ==
    /\ proc = "running"
    /\ pcIn = "watch"
    /\ pending' = ReadTimeout(pending, inRaddr, inConn, NewBuf, now + Timeout)
    /\ pcIn' = "send"
    /\ lastRes' = NoRes
    /\ UNCHANGED <<codecVars, startVars, chainVars, auxVars, configVars, incomingConnections,
                   conns, inRaddr, inData, inConn, now, nrecv, nup, ghostVars,
                   lifeVars>>

\* a clientIn that sends the first packet without a deadline (the zero
\* time.Time)
SendFirstNoDeadline ==
    /\ proc = "running"
    /\ pcIn = "send"
    /\ pending' = WriteTimeout(pending, inRaddr, inConn, inData, 0)
    /\ Return
    /\ lastRes' = NoRes
    /\ UNCHANGED <<codecVars, startVars, chainVars, auxVars, configVars, incomingConnections,
                   conns, now, nrecv, nup, ghostVars, lifeVars>>

\* send the first packet (hopper.go:226); clientIn returns
SendFirst ==
    /\ proc = "running"
    /\ pcIn = "send"
    /\ pending' = WriteTimeout(pending, inRaddr, inConn, inData, now + Timeout)
    /\ Return
    /\ lastRes' = NoRes
    /\ UNCHANGED <<codecVars, startVars, chainVars, auxVars, configVars, incomingConnections,
                   conns, now, nrecv, nup, ghostVars, lifeVars>>

(***************************************************************************)
(* The completion loop: switcher (hopper.go:231-287).  A queued request    *)
(* completes, WaitIO returns its result and the switcher handles it.       *)
(***************************************************************************)
\* the result WaitIO returns
OpResult(op, ctx, conn, buf, err) ==
    [op |-> op, ctx |-> ctx, conn |-> conn, buf |-> buf, err |-> err]

\* a switcher that writes the datagram to the listen socket twice
forwardTwice(res, data) ==
    IF data # NilSlice
    THEN LET d == [to |-> res.ctx, data |-> encryptPacket(crypterIn, data, EngineNonce)]
         IN  <<d, d>>
    ELSE << >>

\* a switcher that addresses the datagram to a client it finds in the table
forwardAnyClient(res, data) ==
    IF data # NilSlice
    THEN <<[to |-> IF \E a \in Clients : incomingConnections[a] # NoConn
                  THEN CHOOSE a \in Clients : incomingConnections[a] # NoConn
                  ELSE res.ctx,
            data |-> encryptPacket(crypterIn, data, EngineNonce)]>>
    ELSE << >>

\* the datagrams the switcher writes to the listen socket for a datagram
\* read from the proxy connection (hopper.go:273-280)
forward(res, data) ==
    IF data # NilSlice
    THEN <<[to |-> res.ctx, data |-> encryptPacket(crypterIn, data, EngineNonce)]>>
    ELSE << >>

\* the body of RESULTS_LOOP for one result; w is the watcher without the
\* completed request
Dispatch(w, res) ==
    LET dec == decryptPacket(crypterOut, res.buf)
        data == IF onNextHopIn # "nil" THEN Callback(onNextHopIn, dec.data)
                ELSE dec.data
        quiet == [res |-> res, called |-> FALSE, arg |-> NilSlice, out |-> << >>]
    IN  IF res.err # "nil"
        THEN /\ incomingConnections' = removeClient(incomingConnections, res.ctx)
             /\ pending' = w
             /\ lastRes' = quiet
        ELSE IF res.op = "write"
        THEN /\ pending' = w
             /\ lastRes' = quiet
             /\ UNCHANGED incomingConnections
        ELSE IF dec.err # "nil"
        THEN /\ pending' = w
             /\ lastRes' = quiet
             /\ UNCHANGED incomingConnections
        ELSE /\ pending' = ReadTimeout(w, res.ctx, res.conn, NewBuf, now + Timeout)
             /\ lastRes' = [res |-> res, called |-> onNextHopIn # "nil",
                            arg |-> IF onNextHopIn # "nil" THEN dec.data
                                    ELSE NilSlice,
                            out |-> forward(res, data)]
             /\ UNCHANGED incomingConnections

\* the switcher is in its loop and WaitIO delivers results
SwitcherRuns == proc = "running" /\ swPc = "wait"

\* the session an I/O on conn for client ctx belongs to is in the table
Current(ctx, conn) == incomingConnections[ctx] = conn

\* the oldest write queued on a socket is sent, or fails
WriteCompletes(c, err) ==
    /\ SwitcherRuns
    /\ (err = "ErrWatcherClosed") <=> watcherClosed
    /\ c \in 1..Len(pending)
    /\ pending[c].writers # << >>
    /\ LET req == Head(pending[c].writers)
       IN  /\ Dispatch(PopWriter(pending, c), OpResult("write", req.ctx, c, NilSlice, err))
           /\ lastOk' = IF err = "nil" /\ Current(req.ctx, c)
                        THEN [lastOk EXCEPT ![req.ctx] = now]
                        ELSE lastOk
    /\ UNCHANGED <<codecVars, startVars, configVars, conns, ingressVars, now,
                   nrecv, nup, lastKind, lastCalled, lastArg, lastSeen, lifeVars>>

WriteDone(c, err) == WriteCompletes(c, err) /\ UNCHANGED <<chainVars, auxVars>>

\* the datagram packet arrives on a socket with a read queued: the read
\* completes with what its buffer holds of the datagram
ReadCompletes(c, packet) ==
    /\ SwitcherRuns
    /\ ~watcherClosed
    /\ c \in 1..Len(pending)
    /\ pending[c].readers # << >>
    /\ LET req == Head(pending[c].readers)
       IN  /\ Dispatch(PopReader(pending, c),
                       OpResult("read", req.ctx, c, ReadInto(req.buf, packet), "nil"))
           /\ IF Current(req.ctx, c)
              THEN /\ lastOk' = [lastOk EXCEPT ![req.ctx] = now]
                   /\ lastSeen' = [lastSeen EXCEPT ![req.ctx] = now]
              ELSE UNCHANGED <<lastOk, lastSeen>>
    /\ UNCHANGED <<codecVars, startVars, configVars, conns, ingressVars, now,
                   nrecv, lastKind, lastCalled, lastArg, lifeVars>>

\* a next hop that speaks the egress cipher sends a datagram
ReadDone(c, kind) ==
    /\ nup < MaxUp
    /\ kind \in PeerKinds(crypterOut)
    /\ nup' = nup + 1
    /\ ReadCompletes(c, PeerFrame(crypterOut, kind))
    /\ UNCHANGED <<chainVars, auxVars>>

\* the oldest read queued on a socket fails: its deadline passed, the
\* socket reports an error, or the watcher was closed
ReadFail(c, err) ==
    /\ SwitcherRuns
    /\ (err = "ErrWatcherClosed") <=> watcherClosed
    /\ c \in 1..Len(pending)
    /\ pending[c].readers # << >>
    /\ LET req == Head(pending[c].readers)
       IN  Dispatch(PopReader(pending, c), OpResult("read", req.ctx, c, NilSlice, err))
    /\ UNCHANGED <<codecVars, startVars, chainVars, auxVars, configVars, conns, ingressVars, now, nrecv, nup,
                   ghostVars, lifeVars>>

\* the deadline of the oldest read queued on a socket passes
ReadExpire(c) ==
    /\ c \in 1..Len(pending)
    /\ pending[c].readers # << >>
    /\ Head(pending[c].readers).deadline <= now
    /\ ReadFail(c, "ErrDeadline")

(***************************************************************************)
(* The clock.  A tick is long against the program's steps: it passes only  *)
(* when the ingress loop waits in ReadFrom, every queued write has         *)
(* completed and every read whose deadline has passed has been completed   *)
(* with ErrDeadline and handled by the switcher.                           *)
(***************************************************************************)
Tick ==
    /\ proc = "running"
    /\ now < MaxTime
    /\ pcIn = "recv"
    /\ \A c \in 1..Len(pending) :
          /\ pending[c].writers = << >>
          /\ \A i \in 1..Len(pending[c].readers) : pending[c].readers[i].deadline > now
    /\ now' = now + 1
    /\ lastRes' = NoRes
    /\ UNCHANGED <<codecVars, startVars, chainVars, auxVars, configVars, incomingConnections, conns, pending,
                   ingressVars, nrecv, nup, ghostVars, lifeVars>>

(***************************************************************************)
(* The end of the engine: Close (hopper.go:304-311), the listen socket     *)
(* failing under Start (hopper.go:173-175) and WaitIO failing under the    *)
(* switcher (hopper.go:234-237).                                           *)
(***************************************************************************)
\* a Close that calls its function whatever ran before
onceDoAlways(done, busy) == "run"

\* dieOnce.Do for a caller that arrives: it runs the function, returns at
\* once because the function has run, or waits for the caller that is
\* running it
onceDo(done, busy) ==
    IF done THEN "skip" ELSE IF busy THEN "wait" ELSE "run"

\* a caller is inside the function handed to dieOnce.Do
CloseBusy == \E j \in Closers : closePc[j] \in {"die", "conn", "watcher"}

\* Close is called: dieOnce.Do decides
CloseCall(k) ==
    /\ proc = "running"
    /\ closePc[k] = "idle"
    /\ LET d == onceDo(onceDone, CloseBusy)
       IN  /\ d # "wait"
           /\ IF d = "skip"
              THEN /\ closePc' = [closePc EXCEPT ![k] = "done"]
                   /\ UNCHANGED teardowns
              ELSE /\ closePc' = [closePc EXCEPT ![k] = "die"]
                   /\ teardowns' = teardowns + 1
    /\ lastRes' = NoRes
    /\ UNCHANGED <<codecVars, startVars, chainVars, auxVars, configVars, incomingConnections, conns, pending,
                   ingressVars, now, nrecv, nup, ghostVars, onceDone,
                   dieClosed, listenClosed, watcherClosed, swPc, proc>>

\* close(l.die): closing a closed channel panics
CloseDie(k) ==
    /\ proc = "running"
    /\ closePc[k] = "die"
    /\ IF dieClosed
       THEN /\ proc' = "panicked"
            /\ UNCHANGED <<closePc, dieClosed>>
       ELSE /\ dieClosed' = TRUE
            /\ closePc' = [closePc EXCEPT ![k] = "conn"]
            /\ UNCHANGED proc
    /\ lastRes' = NoRes
    /\ UNCHANGED <<codecVars, startVars, chainVars, auxVars, configVars, incomingConnections, conns, pending,
                   ingressVars, now, nrecv, nup, ghostVars, onceDone,
                   listenClosed, watcherClosed, swPc, teardowns>>

\* l.conn.Close()
CloseConn(k) ==
    /\ proc = "running"
    /\ closePc[k] = "conn"
    /\ listenClosed' = TRUE
    /\ closePc' = [closePc EXCEPT ![k] = "watcher"]
    /\ lastRes' = NoRes
    /\ UNCHANGED <<codecVars, startVars, chainVars, auxVars, configVars, incomingConnections, conns, pending,
                   ingressVars, now, nrecv, nup, ghostVars, onceDone,
                   dieClosed, watcherClosed, swPc, proc, teardowns>>

\* l.watcher.Close(); the function returns, dieOnce is done, Close returns nil
CloseWatcher(k) ==
    /\ proc = "running"
    /\ closePc[k] = "watcher"
    /\ watcherClosed' = TRUE
    /\ onceDone' = TRUE
    /\ closePc' = [closePc EXCEPT ![k] = "done"]
    /\ lastRes' = NoRes
    /\ UNCHANGED <<codecVars, startVars, chainVars, auxVars, configVars, incomingConnections, conns, pending,
                   ingressVars, now, nrecv, nup, ghostVars,
                   dieClosed, listenClosed, swPc, proc, teardowns>>

\* a Start that logs the error and returns
FatalReturns == "running"

\* the process after logger.Fatal (hopper.go:174): it has exited
Fatal == "exited"

\* ReadFrom on the listen socket returns an error, as it does once the
\* socket is closed; Start calls logger.Fatal
ReadFromErr ==
    /\ proc = "running"
    /\ pcIn = "recv"
    /\ pcIn' = "done"
    /\ proc' = Fatal
    /\ lastRes' = NoRes
    /\ UNCHANGED <<codecVars, startVars, chainVars, auxVars, configVars, incomingConnections, conns, pending,
                   inRaddr, inData, inConn, now, nrecv, nup, ghostVars,
                   closePc, onceDone, dieClosed, listenClosed, watcherClosed,
                   swPc, teardowns>>

\* WaitIO returns an error, as it does once the watcher is closed; the
\* switcher returns
WaitIOErr ==
    /\ SwitcherRuns
    /\ watcherClosed
    /\ swPc' = "stopped"
    /\ lastRes' = NoRes
    /\ UNCHANGED <<codecVars, startVars, chainVars, auxVars, configVars, incomingConnections, conns, pending,
                   ingressVars, now, nrecv, nup, ghostVars, closePc,
                   onceDone, dieClosed, listenClosed, watcherClosed, proc,
                   teardowns>>

Config ==
    /\ crypterIn \in {NoCrypt, 1}
    /\ crypterOut \in {NoCrypt, 2}
    /\ onClientIn \in Callbacks
    /\ onNextHopIn \in Callbacks

Init ==
    /\ CodecIdle
    /\ Config
    /\ ListenWithOptions
    /\ StartOff
    /\ ChainIdle
    /\ AuxIdle

\* the listen socket delivers the next datagram when the watcher holds
\* fewer than MaxQueued writes
Backlog == QueuedWrites(pending) < MaxQueued

\* the engine without the clock: a queued read may fail at any moment
Next ==
    \/ \E raddr \in Clients, kind \in FrameKinds : Backlog /\ Recv(raddr, kind)
    \/ WriteExisting
    \/ \E hop \in NextHops : DialOk(hop)
    \/ DialFail
    \/ Watch
    \/ SendFirst
    \/ \E c \in 1..Len(pending), err \in {"nil", "error"} : WriteDone(c, err)
    \/ \E c \in 1..Len(pending), kind \in FrameKinds : ReadDone(c, kind)
    \/ \E c \in 1..Len(pending) : ReadFail(c, "error")

Spec == Init /\ [][Next]_vars

\* the engine with the clock and one client: a queued read fails when its
\* deadline has passed
TimedNext ==
    \/ \E kind \in FrameKinds : Backlog /\ Recv("A", kind)
    \/ WriteExisting
    \/ \E hop \in NextHops : DialOk(hop)
    \/ DialFail
    \/ Watch
    \/ SendFirst
    \/ \E c \in 1..Len(pending), err \in {"nil", "error"} : WriteDone(c, err)
    \/ \E c \in 1..Len(pending), kind \in FrameKinds : ReadDone(c, kind)
    \/ \E c \in 1..Len(pending) : ReadExpire(c)
    \/ Tick

\* no callbacks installed, as the start command runs the listener
\* (cmd/grasshopper/cmd/start.go:80)
TimedInit ==
    /\ Init
    /\ onClientIn = "nil"
    /\ onNextHopIn = "nil"

TimedSpec == TimedInit /\ [][TimedNext]_vars

\* one client and its session, every datagram queued as it arrives
PairNext ==
    \/ \E kind \in FrameKinds : Recv("A", kind)
    \/ WriteExisting
    \/ \E hop \in NextHops : DialOk(hop)
    \/ DialFail
    \/ Watch
    \/ SendFirst
    \/ \E c \in 1..Len(pending), err \in {"nil", "error"} : WriteDone(c, err)
    \/ \E c \in 1..Len(pending), kind \in FrameKinds : ReadDone(c, kind)
    \/ \E c \in 1..Len(pending) : ReadFail(c, "error")

PairSpec == Init /\ [][PairNext]_vars

\* the engine with callers of Close, a listen socket and a watcher that fail
LifeNext ==
    \/ \E raddr \in Clients : Backlog /\ Recv(raddr, "good")
    \/ WriteExisting
    \/ \E hop \in NextHops : DialOk(hop)
    \/ DialFail
    \/ Watch
    \/ SendFirst
    \/ \E c \in 1..Len(pending), err \in {"nil", "error", "ErrWatcherClosed"} :
          WriteDone(c, err)
    \/ \E c \in 1..Len(pending) : ReadDone(c, "good")
    \/ \E c \in 1..Len(pending), err \in {"error", "ErrWatcherClosed"} :
          ReadFail(c, err)
    \/ \E k \in Closers : CloseCall(k)
    \/ \E k \in Closers : CloseDie(k)
    \/ \E k \in Closers : CloseConn(k)
    \/ \E k \in Closers : CloseWatcher(k)
    \/ ReadFromErr
    \/ WaitIOErr

\* no ciphers and no callbacks
LifeInit ==
    /\ TimedInit
    /\ crypterIn = NoCrypt
    /\ crypterOut = NoCrypt

LifeSpec == LifeInit /\ [][LifeNext]_vars

\* the goroutines keep running: a step that can be taken is taken
FairLifeSpec == LifeSpec /\ WF_vars(LifeNext)

(***************************************************************************)
(* The start command (cmd/grasshopper/cmd/start.go:51-86) with its flags   *)
(* (cmd/grasshopper/cmd/root.go:69-76) and the checks of ListenWithOptions *)
(* (hopper.go:120-147).                                                    *)
(***************************************************************************)
allCryptoMethods ==
    {"none", "sm4", "tea", "aes", "aes-128", "aes-192", "blowfish", "twofish",
     "cast5", "3des", "xtea", "salsa20"}

\* the defaults of --ci and --co
DefaultCI == "qpp"

DefaultCO == "qpp"

\* what a user gives as --ci and --co: a method of the list, nothing (the
\* default applies), or a name that is no method
CryptoFlags == allCryptoMethods \cup {DefaultCI, DefaultCO, "rot13"}

\* what the operating system answers to the calls of ListenWithOptions, and
\* len(nexthops)
OsEnvs ==
    [resolve : BOOLEAN, bind : BOOLEAN, setReadBuffer : BOOLEAN,
     setWriteBuffer : BOOLEAN, newWatcher : BOOLEAN,
     nexthops : 0..Cardinality(NextHops)]

\* a ListenWithOptions that does not look at the next hops
ListenWithOptionsErrAnyHops(env) ==
    IF ~env.resolve THEN "ResolveUDPAddr"
    ELSE IF ~env.bind THEN "ListenUDP"
    ELSE IF ~env.setReadBuffer THEN "SetReadBuffer"
    ELSE IF ~env.setWriteBuffer THEN "SetWriteBuffer"
    ELSE IF ~env.newWatcher THEN "NewWatcher"
    ELSE "nil"

\* the error ListenWithOptions returns (hopper.go:120-147); "nil" when it
\* returns a listener
ListenWithOptionsErr(env) ==
    IF ~env.resolve THEN "ResolveUDPAddr"
    ELSE IF ~env.bind THEN "ListenUDP"
    ELSE IF env.nexthops = 0 THEN "errNoNextHop"
    ELSE IF ~env.setReadBuffer THEN "SetReadBuffer"
    ELSE IF ~env.setWriteBuffer THEN "SetWriteBuffer"
    ELSE IF ~env.newWatcher THEN "NewWatcher"
    ELSE "nil"

\* log.Fatal: the message is logged and the process exits with status 1
LogFatal ==
    /\ startPc' = "fatal"
    /\ exitCode' = 1

\* Run validates config.CI (start.go:67-69)
RunValidateCI ==
    /\ startPc = "validate-ci"
    /\ IF flagCI \notin allCryptoMethods
       THEN LogFatal
       ELSE /\ startPc' = "validate-co"
            /\ UNCHANGED exitCode
    /\ UNCHANGED <<flagCI, flagCO, osEnv, listener, listenErr, codecVars,
                   engineVars, chainVars, auxVars>>

\* Run validates config.CO (start.go:71-73)
RunValidateCO ==
    /\ startPc = "validate-co"
    /\ IF flagCO \notin allCryptoMethods
       THEN LogFatal
       ELSE /\ startPc' = "listen"
            /\ UNCHANGED exitCode
    /\ UNCHANGED <<flagCI, flagCO, osEnv, listener, listenErr, codecVars,
                   engineVars, chainVars, auxVars>>

\* Run calls ListenWithOptions and, with a listener, Start (start.go:80-85)
RunListen ==
    /\ startPc = "listen"
    /\ LET err == ListenWithOptionsErr(osEnv)
       IN  /\ listenErr' = err
           /\ listener' = IF err = "nil" THEN "Listener" ELSE "nil"
           /\ IF err # "nil"
              THEN LogFatal
              ELSE /\ startPc' = "started"
                   /\ UNCHANGED exitCode
    /\ UNCHANGED <<flagCI, flagCO, osEnv, codecVars, engineVars, chainVars, auxVars>>

StartNext == RunValidateCI \/ RunValidateCO \/ RunListen

\* the start command is entered with the flags parsed
StartInit ==
    /\ startPc = "validate-ci"
    /\ flagCI \in CryptoFlags
    /\ flagCO \in CryptoFlags
    /\ osEnv \in OsEnvs
    /\ listener = "nil"
    /\ listenErr = "none"
    /\ exitCode = 0
    /\ CodecIdle
    /\ EngineIdle
    /\ ChainIdle
    /\ AuxIdle

StartSpec == StartInit /\ [][StartNext]_vars

(***************************************************************************)
(* A chain of relays (hopper_test.go:108-160): clients send to the relay,  *)
(* whose next hops are relays in front of an echo server.  The relay has   *)
(* no ingress cipher; its next hops have the ingress cipher hopCrypter, no *)
(* egress cipher and no callbacks.  No datagram is lost and no I/O fails.  *)
(***************************************************************************)
\* the payloads the clients send
ChainPayloads == {<< >>, EnginePayload}

\* a sequence without its element number i
RemoveAt(q, i) == SubSeq(q, 1, i - 1) \o SubSeq(q, i + 1, Len(q))

\* a client sends a payload to the relay
ChainSend(raddr, p) ==
    /\ RecvFrom(raddr, "good", p)
    /\ sent' = Append(sent, [from |-> raddr, data |-> p])
    /\ UNCHANGED <<hopCrypter, wireUp, echoed, wire, got, auxVars>>

\* the oldest write queued on a socket is sent to the next hop; seq tells
\* which payload of the clients the datagram carries
ChainWrite(c) ==
    /\ c \in 1..Len(pending)
    /\ pending[c].writers # << >>
    /\ WriteCompletes(c, "nil")
    /\ wireUp' = Append(wireUp, [conn |-> c, data |-> Head(pending[c].writers).buf,
                                 seq |-> Head(pending[c].writers).seq])
    /\ UNCHANGED <<hopCrypter, echoed, wire, sent, got, auxVars>>

\* a next hop receives a datagram of the relay: its clientIn decodes it and
\* queues the write to the echo server (hopper.go:170-226), which sends the
\* datagram back (hopper_test.go:39-67)
NextHopIn(i) ==
    /\ i \in 1..Len(wireUp)
    /\ LET r == clientInData(ReadInto(NewBuf, wireUp[i].data), hopCrypter, NoCrypt,
                             "nil", EngineNonce)
           up == IF r.drop
                 THEN << >>
                 ELSE WriteTimeout(<<[readers |-> << >>, writers |-> << >>]>>,
                                   "relay", 1, r.data, now + Timeout)[1].writers
       IN  echoed' = echoed \o [j \in 1..Len(up) |->
                                  [conn |-> wireUp[i].conn, data |-> up[j].buf]]
    /\ wireUp' = RemoveAt(wireUp, i)
    /\ lastRes' = NoRes
    /\ UNCHANGED <<codecVars, startVars, auxVars, configVars, incomingConnections, conns,
                   pending, ingressVars, now, nrecv, nup, ghostVars, lifeVars,
                   hopCrypter, wire, sent, got>>

\* the switcher of a next hop handles the datagram the echo server sent
\* back: it writes it, encoded with its ingress cipher, to the relay
\* (hopper.go:259-279)
NextHopBack(i) ==
    /\ i \in 1..Len(echoed)
    /\ LET dec == decryptPacket(NoCrypt, ReadInto(NewBuf, echoed[i].data))
       IN  wire' = IF dec.err = "nil" /\ dec.data # NilSlice
                   THEN Append(wire, [conn |-> echoed[i].conn,
                                      data |-> encryptPacket(hopCrypter, dec.data,
                                                             Pattern(nonceSize, 0))])
                   ELSE wire
    /\ echoed' = RemoveAt(echoed, i)
    /\ lastRes' = NoRes
    /\ UNCHANGED <<codecVars, startVars, auxVars, configVars, incomingConnections, conns,
                   pending, ingressVars, now, nrecv, nup, ghostVars, lifeVars,
                   hopCrypter, wireUp, sent, got>>

\* a datagram of a next hop arrives on its socket
ChainReply(i) ==
    /\ i \in 1..Len(wire)
    /\ ReadCompletes(wire[i].conn, wire[i].data)
    /\ wire' = RemoveAt(wire, i)
    /\ got' = got \o lastRes'.out
    /\ UNCHANGED <<nup, hopCrypter, wireUp, echoed, sent, auxVars>>

ChainNext ==
    \/ \E raddr \in Clients, p \in ChainPayloads : ChainSend(raddr, p)
    \/ WriteExisting
    \/ \E hop \in NextHops : DialOk(hop)
    \/ Watch
    \/ SendFirst
    \/ \E c \in 1..Len(pending) : ChainWrite(c)
    \/ \E i \in 1..Len(wireUp) : NextHopIn(i)
    \/ \E i \in 1..Len(echoed) : NextHopBack(i)
    \/ \E i \in 1..Len(wire) : ChainReply(i)

\* the chain with one client, whose payloads are as long as a buffer allows
\* under a cipher, or nearly
MtuPayloads == {Pattern(n, 3) : n \in {1, mtuLimit - headerSize}}

MtuNext ==
    \/ \E p \in MtuPayloads : ChainSend("A", p)
    \/ WriteExisting
    \/ \E hop \in NextHops : DialOk(hop)
    \/ Watch
    \/ SendFirst
    \/ \E c \in 1..Len(pending) : ChainWrite(c)
    \/ \E i \in 1..Len(wireUp) : NextHopIn(i)
    \/ \E i \in 1..Len(echoed) : NextHopBack(i)
    \/ \E i \in 1..Len(wire) : ChainReply(i)

\* the relay encodes for its next hops with crypterOut; the next hops decode
\* with hopCrypter, a cipher exactly when the relay has one
ChainInit ==
    /\ CodecIdle
    /\ ListenWithOptions
    /\ StartOff
    /\ AuxIdle
    /\ crypterIn = NoCrypt
    /\ crypterOut \in Crypters
    /\ hopCrypter \in Crypters
    /\ (hopCrypter = NoCrypt) <=> (crypterOut = NoCrypt)
    /\ onClientIn = "nil"
    /\ onNextHopIn = "nil"
    /\ wireUp = << >>
    /\ echoed = << >>
    /\ wire = << >>
    /\ sent = << >>
    /\ got = << >>

ChainSpec == ChainInit /\ [][ChainNext]_vars

\* the relay and its next hops share a cipher and a key
MtuInit ==
    /\ ChainInit
    /\ crypterOut # NoCrypt
    /\ hopCrypter = crypterOut

MtuSpec == MtuInit /\ [][MtuNext]_vars

\* the goroutines of the relay keep running and the network delivers
FairChainSpec == ChainSpec /\ WF_vars(ChainNext)

(***************************************************************************)
(* The two goroutines call by call, with the mutex of the table            *)
(* (incomingConnectionsLock, hopper.go:90).  inLine and swLine name the    *)
(* call a goroutine makes next; Lock blocks while the mutex is held.       *)
(***************************************************************************)
\* what these steps never change
lockFrame == <<codecVars, startVars, chainVars, bindVars, configVars, pcIn, now,
               ghostVars, lifeVars>>

\* clientIn returns and Start loops to its next ReadFrom (hopper.go:169-171)
LineReturn ==
    /\ inLine' = "ReadFrom"
    /\ inRaddr' = NoAddr
    /\ inData' = NilSlice
    /\ inConn' = NoConn

\* l.conn.ReadFrom delivers a datagram (hopper.go:170-172)
StartReadFrom(raddr) ==
    /\ proc = "running"
    /\ inLine = "ReadFrom"
    /\ nrecv < MaxRecv
    /\ inRaddr' = raddr
    /\ inData' = ReadInto(NewBuf, PeerFrame(crypterIn, "good"))
    /\ nrecv' = nrecv + 1
    /\ inLine' = "decryptPacket"
    /\ UNCHANGED <<mu, swLine, swRes, incomingConnections, conns, pending, inConn,
                   nup, lastRes, lockFrame>>

\* decryptPacket in clientIn (hopper.go:183-187)
clientInDecrypt ==
    /\ inLine = "decryptPacket"
    /\ LET r == decryptPacket(crypterIn, inData)
       IN  IF r.err # "nil"
           THEN LineReturn
           ELSE /\ inData' = r.data
                /\ inLine' = "onClientIn"
                /\ UNCHANGED <<inRaddr, inConn>>
    /\ UNCHANGED <<mu, swLine, swRes, incomingConnections, conns, pending, nrecv,
                   nup, lastRes, lockFrame>>

\* the onClientIn callback (hopper.go:190-197)
clientInCallback ==
    /\ inLine = "onClientIn"
    /\ LET data == IF onClientIn # "nil" THEN Callback(onClientIn, inData)
                   ELSE inData
       IN  IF data = NilSlice
           THEN LineReturn
           ELSE /\ inData' = data
                /\ inLine' = "encryptPacket"
                /\ UNCHANGED <<inRaddr, inConn>>
    /\ UNCHANGED <<mu, swLine, swRes, incomingConnections, conns, pending, nrecv,
                   nup, lastRes, lockFrame>>

\* encryptPacket in clientIn (hopper.go:200)
clientInEncrypt ==
    /\ inLine = "encryptPacket"
    /\ inData' = encryptPacket(crypterOut, inData, EngineNonce)
    /\ inLine' = "Lock"
    /\ UNCHANGED <<mu, swLine, swRes, incomingConnections, conns, pending, inRaddr,
                   inConn, nrecv, nup, lastRes, lockFrame>>

\* incomingConnectionsLock.Lock() in clientIn (hopper.go:202)
clientInLock ==
    /\ inLine = "Lock"
    /\ mu = "free"
    /\ mu' = "clientIn"
    /\ inLine' = "load"
    /\ UNCHANGED <<swLine, swRes, incomingConnections, conns, pending, inRaddr,
                   inData, inConn, nrecv, nup, lastRes, lockFrame>>

\* the lookup in the map (hopper.go:203)
clientInLoad ==
    /\ inLine = "load"
    /\ inConn' = loadConn(incomingConnections, inRaddr)
    /\ inLine' = "Unlock"
    /\ UNCHANGED <<mu, swLine, swRes, incomingConnections, conns, pending, inRaddr,
                   inData, nrecv, nup, lastRes, lockFrame>>

\* a clientIn that goes on without unlocking
clientInUnlockNever ==
    /\ inLine = "Unlock"
    /\ inLine' = IF inConn # NoConn THEN "WriteTimeout" ELSE "Dial"
    /\ UNCHANGED <<mu, swLine, swRes, incomingConnections, conns, pending, inRaddr,
                   inData, inConn, nrecv, nup, lastRes, lockFrame>>

\* incomingConnectionsLock.Unlock() in clientIn (hopper.go:204) and the
\* branch on ok (hopper.go:207)
clientInUnlock ==
    /\ inLine = "Unlock"
    /\ mu' = "free"
    /\ inLine' = IF inConn # NoConn THEN "WriteTimeout" ELSE "Dial"
    /\ UNCHANGED <<swLine, swRes, incomingConnections, conns, pending, inRaddr,
                   inData, inConn, nrecv, nup, lastRes, lockFrame>>

\* WriteTimeout, for an existing connection (hopper.go:208) or as the last
\* call for a new one (hopper.go:226); clientIn returns
clientInWrite ==
    /\ inLine \in {"WriteTimeout", "WriteTimeout.new"}
    /\ pending' = WriteTimeout(pending, inRaddr, inConn, inData, now + Timeout)
    /\ LineReturn
    /\ UNCHANGED <<mu, swLine, swRes, incomingConnections, conns, nrecv, nup,
                   lastRes, lockFrame>>

\* net.Dial to a next hop picked at random (hopper.go:211-212)
clientInDial(hop) ==
    /\ inLine = "Dial"
    /\ conns' = Append(conns, [hop |-> hop, client |-> inRaddr])
    /\ pending' = Append(pending, [readers |-> << >>, writers |-> << >>])
    /\ inConn' = Len(conns) + 1
    /\ inLine' = "addClient.Lock"
    /\ UNCHANGED <<mu, swLine, swRes, incomingConnections, inRaddr, inData, nrecv,
                   nup, lastRes, lockFrame>>

\* net.Dial fails (hopper.go:213-216)
clientInDialErr ==
    /\ inLine = "Dial"
    /\ LineReturn
    /\ UNCHANGED <<mu, swLine, swRes, incomingConnections, conns, pending, nrecv,
                   nup, lastRes, lockFrame>>

\* incomingConnectionsLock.Lock() in addClient (hopper.go:291)
addClientLock ==
    /\ inLine = "addClient.Lock"
    /\ mu = "free"
    /\ mu' = "clientIn"
    /\ inLine' = "addClient.store"
    /\ UNCHANGED <<swLine, swRes, incomingConnections, conns, pending, inRaddr,
                   inData, inConn, nrecv, nup, lastRes, lockFrame>>

\* the insert into the map (hopper.go:292)
addClientStore ==
    /\ inLine = "addClient.store"
    /\ incomingConnections' = addClient(incomingConnections, inRaddr, inConn)
    /\ inLine' = "addClient.Unlock"
    /\ UNCHANGED <<mu, swLine, swRes, conns, pending, inRaddr, inData, inConn,
                   nrecv, nup, lastRes, lockFrame>>

\* incomingConnectionsLock.Unlock() in addClient (hopper.go:293)
addClientUnlock ==
    /\ inLine = "addClient.Unlock"
    /\ mu' = "free"
    /\ inLine' = "ReadTimeout"
    /\ UNCHANGED <<swLine, swRes, incomingConnections, conns, pending, inRaddr,
                   inData, inConn, nrecv, nup, lastRes, lockFrame>>

\* ReadTimeout on the new connection (hopper.go:225)
clientInWatch ==
    /\ inLine = "ReadTimeout"
    /\ pending' = ReadTimeout(pending, inRaddr, inConn, NewBuf, now + Timeout)
    /\ inLine' = "WriteTimeout.new"
    /\ UNCHANGED <<mu, swLine, swRes, incomingConnections, conns, inRaddr, inData,
                   inConn, nrecv, nup, lastRes, lockFrame>>

\* the switcher is done with a result and takes the next one
NextResult ==
    /\ swLine' = "WaitIO"
    /\ swRes' = NoRes.res

\* WaitIO hands the switcher the oldest write of a socket, sent or failed
\* (hopper.go:233, 240-248)
switcherWrite(c, err) ==
    /\ SwitcherRuns
    /\ swLine = "WaitIO"
    /\ c \in 1..Len(pending)
    /\ pending[c].writers # << >>
    /\ pending' = PopWriter(pending, c)
    /\ IF err # "nil"
       THEN /\ swRes' = OpResult("write", Head(pending[c].writers).ctx, c, NilSlice, err)
            /\ swLine' = "removeClient.Lock"
       ELSE NextResult
    /\ UNCHANGED <<mu, inLine, incomingConnections, conns, ingressVars, nrecv, nup,
                   lastRes, codecVars, startVars, chainVars, bindVars, configVars, now,
                   ghostVars, lifeVars>>

\* WaitIO hands the switcher the oldest read of a socket, failed or with a
\* datagram of the next hop (hopper.go:233, 250-257)
switcherRead(c, err) ==
    /\ SwitcherRuns
    /\ swLine = "WaitIO"
    /\ c \in 1..Len(pending)
    /\ pending[c].readers # << >>
    /\ pending' = PopReader(pending, c)
    /\ LET req == Head(pending[c].readers)
       IN  IF err # "nil"
           THEN /\ swRes' = OpResult("read", req.ctx, c, NilSlice, err)
                /\ swLine' = "removeClient.Lock"
                /\ UNCHANGED nup
           ELSE /\ nup < MaxUp
                /\ nup' = nup + 1
                /\ swRes' = OpResult("read", req.ctx, c,
                                     ReadInto(req.buf, PeerFrame(crypterOut, "good")),
                                     "nil")
                /\ swLine' = "decryptPacket"
    /\ UNCHANGED <<mu, inLine, incomingConnections, conns, ingressVars, nrecv,
                   lastRes, codecVars, startVars, chainVars, bindVars, configVars, now,
                   ghostVars, lifeVars>>

\* incomingConnectionsLock.Lock() in removeClient (hopper.go:298)
removeClientLock ==
    /\ swLine = "removeClient.Lock"
    /\ mu = "free"
    /\ mu' = "switcher"
    /\ swLine' = "removeClient.delete"
    /\ UNCHANGED <<inLine, swRes, incomingConnections, conns, pending, inRaddr,
                   inData, inConn, nrecv, nup, lastRes, lockFrame>>

\* the delete from the map (hopper.go:299)
removeClientDelete ==
    /\ swLine = "removeClient.delete"
    /\ incomingConnections' = removeClient(incomingConnections, swRes.ctx)
    /\ swLine' = "removeClient.Unlock"
    /\ UNCHANGED <<mu, inLine, swRes, conns, pending, inRaddr, inData, inConn,
                   nrecv, nup, lastRes, lockFrame>>

\* incomingConnectionsLock.Unlock() in removeClient (hopper.go:300) and the
\* continue of the switcher (hopper.go:247, 255)
removeClientUnlock ==
    /\ swLine = "removeClient.Unlock"
    /\ mu' = "free"
    /\ NextResult
    /\ UNCHANGED <<inLine, incomingConnections, conns, pending, inRaddr, inData,
                   inConn, nrecv, nup, lastRes, lockFrame>>

\* decryptPacket in the switcher (hopper.go:259-266)
switcherDecrypt ==
    /\ swLine = "decryptPacket"
    /\ LET dec == decryptPacket(crypterOut, swRes.buf)
       IN  IF dec.err # "nil"
           THEN NextResult
           ELSE /\ swRes' = [swRes EXCEPT !.buf = dec.data]
                /\ swLine' = "onNextHopIn"
    /\ UNCHANGED <<mu, inLine, incomingConnections, conns, pending, inRaddr, inData,
                   inConn, nrecv, nup, lastRes, lockFrame>>

\* the onNextHopIn callback (hopper.go:269-271)
switcherCallback ==
    /\ swLine = "onNextHopIn"
    /\ swRes' = [swRes EXCEPT !.buf = IF onNextHopIn # "nil"
                                      THEN Callback(onNextHopIn, swRes.buf)
                                      ELSE swRes.buf]
    /\ swLine' = "WriteTo"
    /\ UNCHANGED <<mu, inLine, incomingConnections, conns, pending, inRaddr, inData,
                   inConn, nrecv, nup, lastRes, lockFrame>>

\* encryptPacket and l.conn.WriteTo, unless the data is nil (hopper.go:274-280)
switcherWriteTo ==
    /\ swLine = "WriteTo"
    /\ lastRes' = [res |-> swRes, called |-> FALSE, arg |-> NilSlice,
                   out |-> forward(swRes, swRes.buf)]
    /\ swLine' = "ReadTimeout"
    /\ UNCHANGED <<mu, inLine, swRes, incomingConnections, conns, pending, inRaddr,
                   inData, inConn, nrecv, nup, lockFrame>>

\* the next read on the connection (hopper.go:283)
switcherRearm ==
    /\ swLine = "ReadTimeout"
    /\ pending' = ReadTimeout(pending, swRes.ctx, swRes.conn, NewBuf, now + Timeout)
    /\ NextResult
    /\ UNCHANGED <<mu, inLine, incomingConnections, conns, inRaddr, inData, inConn,
                   nrecv, nup, lastRes, lockFrame>>

\* the calls of the goroutine of Start after ReadFrom has returned
clientIn ==
    \/ clientInDecrypt
    \/ clientInCallback
    \/ clientInEncrypt
    \/ clientInLock
    \/ clientInLoad
    \/ clientInUnlock
    \/ clientInWrite
    \/ \E hop \in NextHops : clientInDial(hop)
    \/ clientInDialErr
    \/ addClientLock
    \/ addClientStore
    \/ addClientUnlock
    \/ clientInWatch

\* the calls of the switcher after WaitIO has returned
switcher ==
    \/ removeClientLock
    \/ removeClientDelete
    \/ removeClientUnlock
    \/ switcherDecrypt
    \/ switcherCallback
    \/ switcherWriteTo
    \/ switcherRearm

LockNext ==
    \/ \E raddr \in Clients : StartReadFrom(raddr)
    \/ clientIn
    \/ \E c \in 1..Len(pending), err \in {"nil", "error"} : switcherWrite(c, err)
    \/ \E c \in 1..Len(pending), err \in {"nil", "error"} : switcherRead(c, err)
    \/ switcher

\* no ciphers; any callbacks
LockInit ==
    /\ Init
    /\ crypterIn = NoCrypt
    /\ crypterOut = NoCrypt

LockSpec == LockInit /\ [][LockNext]_vars

\* the scheduler runs a goroutine that can run
FairLockSpec == LockSpec /\ WF_vars(clientIn) /\ WF_vars(switcher)

(***************************************************************************)
(* A program that calls ListenWithOptions for one listen address, again    *)
(* after an error or after it closed the listener it got                   *)
(* (hopper.go:112-162, 304-311).                                           *)
(***************************************************************************)
\* calls of ListenWithOptions in one run
MaxListens == 3

\* the listen socket is open when ListenWithOptions returns: ListenUDP
\* opened it (hopper.go:124) and no return closes it (hopper.go:129-147)
ListenWithOptionsOpen(env) == env.resolve /\ env.bind

\* nothing holds the listen address
AddrFree == ~leaked /\ listener = "nil"

\* the program calls ListenWithOptions; ListenUDP can bind only a free
\* address
Listen(env) ==
    /\ startPc = "off"
    /\ listener = "nil"
    /\ listens < MaxListens
    /\ env.bind => AddrFree
    /\ LET err == ListenWithOptionsErr(env)
       IN  /\ listenErr' = err
           /\ listener' = IF err = "nil" THEN "Listener" ELSE "nil"
           /\ leaked' = (leaked \/ (err # "nil" /\ ListenWithOptionsOpen(env)))
    /\ osEnv' = env
    /\ listens' = listens + 1
    /\ UNCHANGED <<startPc, flagCI, flagCO, exitCode, codecVars, engineVars,
                   chainVars, lockVars>>

\* the program closes the listener it got: Close closes the listen socket
\* (hopper.go:307)
ListenerClose ==
    /\ startPc = "off"
    /\ listener = "Listener"
    /\ listener' = "nil"
    /\ UNCHANGED <<startPc, flagCI, flagCO, osEnv, listenErr, exitCode, codecVars,
                   engineVars, chainVars, lockVars, bindVars>>

\* the garbage collector finds the socket nobody refers to and its
\* finalizer closes it
Finalizer ==
    /\ leaked
    /\ leaked' = FALSE
    /\ UNCHANGED <<startVars, codecVars, engineVars, chainVars, lockVars, listens>>

ListenNext ==
    \/ \E env \in OsEnvs : Listen(env)
    \/ ListenerClose
    \/ Finalizer

\* the program has no listener yet
ListenInit ==
    /\ CodecIdle
    /\ EngineIdle
    /\ ChainIdle
    /\ AuxIdle
    /\ startPc = "off"
    /\ flagCI = "none"
    /\ flagCO = "none"
    /\ osEnv \in OsEnvs
    /\ listener = "nil"
    /\ listenErr = "none"
    /\ exitCode = 0

ListenSpec == ListenInit /\ [][ListenNext]_vars

\* the chain with one client that also sends datagrams as long as the read
\* buffer of Start (hopper.go:170)
FullPayloads == {Pattern(n, 3) : n \in {1, mtuLimit}}

FullNext ==
    \/ \E p \in FullPayloads : ChainSend("A", p)
    \/ WriteExisting
    \/ \E hop \in NextHops : DialOk(hop)
    \/ Watch
    \/ SendFirst
    \/ \E c \in 1..Len(pending) : ChainWrite(c)
    \/ \E i \in 1..Len(wireUp) : NextHopIn(i)
    \/ \E i \in 1..Len(echoed) : NextHopBack(i)
    \/ \E i \in 1..Len(wire) : ChainReply(i)

FullSpec == MtuInit /\ [][FullNext]_vars

(***************************************************************************)
(* The legacy listener of udpcast.go, with one target and no cipher        *)
(* (block = nil); the listener with a single next hop                      *)
(* (unnamed/part_005:106-233) does the same calls in the same order.  It   *)
(* has the fields of the Listener above: conn, watcher,                    *)
(* incomingConnections.                                                    *)
(***************************************************************************)
\* l.target, the address every connection is dialled to
Target == "T"

\* what these steps never change
castFrame == <<codecVars, startVars, chainVars, auxVars, configVars, now,
               ghostVars, lifeVars>>

\* delete(l.incomingConnections, raddr.String()) (udpcast.go:183-187); the
\* delete of a key that is not in the map does nothing
cleanClient(tbl, raddr) ==
    IF raddr \in DOMAIN tbl THEN [tbl EXCEPT ![raddr] = NoConn] ELSE tbl

\* res.Conn.RemoteAddr(): the address the socket is connected to
RemoteAddr(c) == conns[c].hop

\* ReadFrom delivers a datagram and packetInput looks the sender up
\* (udpcast.go:85-111)
packetInput(raddr) ==
    /\ pcIn = "recv"
    /\ nrecv < MaxRecv
    /\ nrecv' = nrecv + 1
    /\ inRaddr' = raddr
    /\ inData' = ReadInto(NewBuf, EnginePayload)
    /\ inConn' = incomingConnections[raddr]
    /\ pcIn' = IF incomingConnections[raddr] # NoConn THEN "write" ELSE "dial"
    /\ lastRes' = NoRes
    /\ UNCHANGED <<incomingConnections, conns, pending, nup, castFrame>>

\* existing connection (udpcast.go:113-114)
packetInputWrite ==
    /\ pcIn = "write"
    /\ pending' = WriteTimeout(pending, "nil", inConn, inData, now + Timeout)
    /\ Return
    /\ lastRes' = NoRes
    /\ UNCHANGED <<incomingConnections, conns, nrecv, nup, castFrame>>

\* new connection: dial the target and register the sender
\* (udpcast.go:116-127)
packetInputDial ==
    /\ pcIn = "dial"
    /\ conns' = Append(conns, [hop |-> Target, client |-> inRaddr])
    /\ pending' = Append(pending, [readers |-> << >>, writers |-> << >>])
    /\ inConn' = Len(conns) + 1
    /\ incomingConnections' = [incomingConnections EXCEPT ![inRaddr] = Len(conns) + 1]
    /\ pcIn' = "watch"
    /\ lastRes' = NoRes
    /\ UNCHANGED <<inRaddr, inData, nrecv, nup, castFrame>>

\* net.Dial fails (udpcast.go:118-121)
packetInputDialErr ==
    /\ pcIn = "dial"
    /\ Return
    /\ lastRes' = NoRes
    /\ UNCHANGED <<incomingConnections, conns, pending, nrecv, nup, castFrame>>

\* ReadTimeout with the sender as context (udpcast.go:128)
packetInputRead ==
    /\ pcIn = "watch"
    /\ pending' = ReadTimeout(pending, inRaddr, inConn, NewBuf, now + Timeout)
    /\ pcIn' = "send"
    /\ lastRes' = NoRes
    /\ UNCHANGED <<incomingConnections, conns, inRaddr, inData, inConn, nrecv, nup,
                   castFrame>>

\* WriteTimeout with a nil context (udpcast.go:129)
packetInputSend ==
    /\ pcIn = "send"
    /\ pending' = WriteTimeout(pending, "nil", inConn, inData, now + Timeout)
    /\ Return
    /\ lastRes' = NoRes
    /\ UNCHANGED <<incomingConnections, conns, nrecv, nup, castFrame>>

\* the switcher handles a completed write (udpcast.go:146-153)
castSwitcherWrite(c, err) ==
    /\ c \in 1..Len(pending)
    /\ pending[c].writers # << >>
    /\ pending' = PopWriter(pending, c)
    /\ incomingConnections' = IF err # "nil"
                              THEN cleanClient(incomingConnections, RemoteAddr(c))
                              ELSE incomingConnections
    /\ lastRes' = [res |-> OpResult("write", "nil", c, NilSlice, err),
                   called |-> FALSE, arg |-> NilSlice, out |-> << >>]
    /\ UNCHANGED <<conns, ingressVars, nrecv, nup, castFrame>>

\* the switcher handles a read that failed (udpcast.go:155-160)
castSwitcherReadErr(c) ==
    /\ c \in 1..Len(pending)
    /\ pending[c].readers # << >>
    /\ pending' = PopReader(pending, c)
    /\ incomingConnections' = cleanClient(incomingConnections, RemoteAddr(c))
    /\ lastRes' = [res |-> OpResult("read", Head(pending[c].readers).ctx, c,
                                    NilSlice, "error"),
                   called |-> FALSE, arg |-> NilSlice, out |-> << >>]
    /\ UNCHANGED <<conns, ingressVars, nrecv, nup, castFrame>>

\* the switcher handles a datagram of the target: it writes it to the
\* listen socket for the context and reads again (udpcast.go:162-177)
castSwitcherRead(c) ==
    /\ c \in 1..Len(pending)
    /\ pending[c].readers # << >>
    /\ nup < MaxUp
    /\ nup' = nup + 1
    /\ LET req == Head(pending[c].readers)
           buf == ReadInto(req.buf, EnginePayload)
       IN  /\ pending' = ReadTimeout(PopReader(pending, c), req.ctx, c, NewBuf,
                                     now + Timeout)
           /\ lastRes' = [res |-> OpResult("read", req.ctx, c, buf, "nil"),
                          called |-> FALSE, arg |-> NilSlice,
                          out |-> <<[to |-> req.ctx, data |-> buf]>>]
    /\ UNCHANGED <<incomingConnections, conns, ingressVars, nrecv, castFrame>>

CastNext ==
    \/ \E raddr \in Clients : packetInput(raddr)
    \/ packetInputWrite
    \/ packetInputDial
    \/ packetInputDialErr
    \/ packetInputRead
    \/ packetInputSend
    \/ \E c \in 1..Len(pending), err \in {"nil", "error"} : castSwitcherWrite(c, err)
    \/ \E c \in 1..Len(pending) : castSwitcherReadErr(c)
    \/ \E c \in 1..Len(pending) : castSwitcherRead(c)

\* the listener as its ListenWithOptions returns it (udpcast.go:46-82),
\* without a cipher
CastInit == LifeInit

CastSpec == CastInit /\ [][CastNext]_vars

(***************************************************************************)
(* The claims.                                                             *)
(***************************************************************************)
\* a step of the ingress loop
IngressStep == pcIn' # pcIn \/ nrecv' # nrecv

\* the oldest read queued on socket c completed
ReadCompleted(c) ==
    /\ c \in 1..Len(pending)
    /\ pending[c].readers # << >>
    /\ pending'[c].readers # pending[c].readers

\* the writes queued on socket c, in watcher w
WritersOf(w, c) == IF c \in 1..Len(w) THEN w[c].writers ELSE << >>

\* C1: a session that saw no datagram, from its client or on its upstream
\* socket, for the idle timeout is removed before a further timeout has
\* elapsed: no session is in the table 2 * Timeout after its last datagram.
C1_IdleEviction ==
    \A a \in Clients :
        incomingConnections[a] # NoConn => now - lastSeen[a] < 2 * Timeout

\* C2: a session is never evicted for idleness (the read on its socket
\* completing with an error evicts it) at a moment when an I/O of that
\* session succeeded less than the idle timeout ago.
C2_ActivityKeepsAlive ==
    [][\A a \in Clients :
          (incomingConnections[a] # NoConn /\ incomingConnections'[a] = NoConn
             /\ ReadCompleted(incomingConnections[a]))
          => now - lastOk[a] >= Timeout]_vars

\* C3: with an ingress cipher, clientIn handling a client datagram shorter
\* than the header queues no write, dials no socket and leaves the session
\* table unchanged.
C3_ShortClientDropped ==
    [][(crypterIn # NoCrypt /\ lastKind' = "short" /\ IngressStep)
          => UNCHANGED <<incomingConnections, pending, conns>>]_vars

\* C4: with a cipher, decryptPacket returns an error for every frame shorter
\* than the header.
C4_ShortFrameIsError ==
    (cPc = "decoded" /\ cDecrypter # NoCrypt /\ Len(cInput) < headerSize)
        => cOut.err # "nil"

\* the frame decryptPacket was applied to
DecodedFrame == IF cPc = "roundtrip" THEN cFrame ELSE cInput

\* C5: with a cipher and a frame of at least the header's length,
\* decryptPacket returns errChecksum and no data exactly when bytes [8,16)
\* of the decrypted frame differ from the first 8 bytes of the digest of
\* bytes [16,end), and bytes [16,end) otherwise.
C5_TagCheck ==
    (cPc \in {"decoded", "roundtrip"} /\ cDecrypter # NoCrypt
        /\ Len(DecodedFrame) >= 16)
    => LET plain == Decrypt(cDecrypter, DecodedFrame)
           tag == SubSeq(plain, 9, 16)
           digest == SubSeq(md5Sum(SubSeq(plain, 17, Len(plain))), 1, 8)
       IN  IF tag # digest
           THEN cOut = [data |-> NilSlice, err |-> "errChecksum"]
           ELSE cOut = [data |-> SubSeq(plain, 17, Len(plain)), err |-> "nil"]

\* a damaged frame was rejected and an intact one accepted
C5_Witness ==
    /\ cPc = "decoded"
    /\ cDecrypter # NoCrypt
    /\ cInput \in BadFrames
    /\ cOut.err = "errChecksum"

\* C6: a client datagram whose tag does not match changes nothing: the
\* session table, the watcher's queue and the sockets stay as they are, the
\* callback is not invoked and the ingress loop is back in ReadFrom.
C6_TagMismatchNoEffect ==
    [][(crypterIn # NoCrypt /\ lastKind' = "badtag" /\ nrecv' # nrecv)
          => /\ UNCHANGED <<incomingConnections, pending, conns>>
             /\ ~lastCalled'
             /\ pcIn' = "recv"]_vars

\* a datagram with a damaged tag arrived from a client that has a session
C6_Witness ==
    /\ crypterIn # NoCrypt
    /\ lastKind = "badtag"
    /\ onClientIn = "pass"
    /\ pcIn = "recv"
    /\ \E a \in Clients : incomingConnections[a] # NoConn

\* C7: with a cipher, decoding what encryptPacket made of a payload of 8 to
\* 1484 bytes under the same key returns the payload; the frame is 16 bytes
\* longer and is, decrypted, nonce | tag | payload, whatever the nonce.
C7_RoundTrip ==
    (cPc = "roundtrip" /\ cCrypter # NoCrypt /\ cDecrypter = cCrypter
        /\ Len(cInput) >= 8 /\ Len(cInput) <= mtuLimit - headerSize)
    => /\ cOut = [data |-> cInput, err |-> "nil"]
       /\ Len(cFrame) = Len(cInput) + 16
       /\ Decrypt(cCrypter, cFrame)
            = cNonce \o SubSeq(md5Sum(cInput), 1, 8) \o cInput

\* a payload of 8 bytes or more went through encryptPacket and decryptPacket
C7_Witness ==
    /\ cPc = "roundtrip"
    /\ cCrypter # NoCrypt
    /\ cDecrypter = cCrypter
    /\ Len(cInput) >= 8
    /\ cNonce # Pattern(nonceSize, 0)
    /\ cOut.data = cInput

\* C8: without a cipher encryptPacket returns the payload and decryptPacket
\* the frame, unchanged, also when they are shorter than the header.
C8_NoneTransparent ==
    /\ (cPc \in {"encoded", "roundtrip"} /\ cCrypter = NoCrypt) => cFrame = cInput
    /\ (cPc \in {"decoded", "roundtrip"} /\ cDecrypter = NoCrypt)
          => cOut = [data |-> DecodedFrame, err |-> "nil"]

\* a frame of at least the header's length was decoded without a cipher
C8_Witness ==
    /\ cPc = "decoded"
    /\ cDecrypter = NoCrypt
    /\ Len(cInput) >= headerSize
    /\ cOut.data = cInput

C11_AtMostOnce ==
    /\ \A c \in 1..Len(pending), d \in 1..Len(pending) :
          \A i \in 1..Len(pending[c].writers), j \in 1..Len(pending[d].writers) :
             /\ pending[c].writers[i].seq \in 1..nrecv
             /\ (c # d \/ i # j)
                  => pending[c].writers[i].seq # pending[d].writers[j].seq
    /\ Len(lastRes.out) <= 1
    /\ lastRes.out # << >> => lastRes.res.op = "read" /\ lastRes.res.err = "nil"

\* both datagrams of a run are queued, one write each, and a read that
\* completed was forwarded as one datagram
C11_Witness ==
    /\ nrecv = 2
    /\ \E c \in 1..Len(pending) : Len(pending[c].writers) = 2
    /\ Len(lastRes.out) = 1

\* C12: every read and every write the watcher holds on a socket has as
\* context the client the socket was dialled for, and a datagram read on a
\* socket is written to the listen socket for that client only.
C12_ReplyRouting ==
    /\ \A c \in 1..Len(pending) :
          /\ \A i \in 1..Len(pending[c].readers) :
                pending[c].readers[i].ctx = conns[c].client
          /\ \A i \in 1..Len(pending[c].writers) :
                pending[c].writers[i].ctx = conns[c].client
    /\ \A i \in 1..Len(lastRes.out) :
          lastRes.out[i].to = conns[lastRes.res.conn].client

\* both clients have a session and the reply read on the socket of the
\* second was forwarded
C12_Witness ==
    /\ incomingConnections["A"] = 1
    /\ incomingConnections["B"] = 2
    /\ lastRes.res.conn = 2
    /\ Len(lastRes.out) = 1
    /\ lastRes.out[1].to = "B"
    /\ pending[1].readers # << >>

\* the switcher handled, in the last step, a read that completed without
\* error
ReadHandled == lastRes.res.op = "read" /\ lastRes.res.err = "nil"

\* C13: when the data of a read that completed without error fails the
\* decode under the egress cipher, nothing is written to the listen socket
\* and a read with the same context and deadline now + timeout is queued on
\* the same socket.
C13_DecodeErrorRearms ==
    (ReadHandled /\ decryptPacket(crypterOut, lastRes.res.buf).err # "nil")
    => /\ lastRes.out = << >>
       /\ \E i \in 1..Len(pending[lastRes.res.conn].readers) :
             pending[lastRes.res.conn].readers[i]
                = [ctx |-> lastRes.res.ctx, buf |-> NewBuf,
                   deadline |-> now + Timeout]

\* C14: a read or write that completes with an error removes the entry of
\* its context from the table; a datagram of a client without an entry that
\* clientIn does not drop goes to the dial, and an entry appears only by a
\* dial for that client, bound to the socket just opened, whose remote
\* address is one of the next hops.
C14_EvictRecreate ==
    [][/\ lastRes'.res.err # "nil"
            => incomingConnections'[lastRes'.res.ctx] = NoConn
       /\ \A a \in Clients :
             /\ (incomingConnections[a] = NoConn /\ nrecv' # nrecv /\ inRaddr' = a)
                   => pcIn' = "dial"
             /\ (incomingConnections[a] = NoConn /\ incomingConnections'[a] # NoConn)
                   => /\ pcIn = "dial"
                      /\ inRaddr = a
                      /\ Len(conns') = Len(conns) + 1
                      /\ incomingConnections'[a] = Len(conns')
                      /\ conns'[Len(conns')].hop \in NextHops
                      /\ conns'[Len(conns')].client = a]_vars

\* a client whose session was evicted has a new one, on a second socket
\* to another next hop
C14_Witness ==
    /\ Len(conns) = 2
    /\ conns[1].client = "A"
    /\ conns[2].client = "A"
    /\ conns[1].hop # conns[2].hop
    /\ incomingConnections["A"] = 2

\* C15: a datagram read on a socket whose session is no longer in the table
\* is not written to the listen socket and no read is queued on that socket
\* again.
C15_EvictedTerminal ==
    (ReadHandled /\ incomingConnections[lastRes.res.ctx] # lastRes.res.conn)
    => /\ lastRes.out = << >>
       /\ pending[lastRes.res.conn].readers = << >>

\* some goroutine returned from Close
CloseReturned == \E k \in Closers : closePc[k] = "done"

\* C16: whatever the number and the timing of the calls of Close, no call
\* panics, the function handed to dieOnce.Do runs at most once, and when a
\* call has returned (it returns nil) the function has run exactly once:
\* the die channel, the listen socket and the watcher are closed.
C16_CloseIdempotent ==
    /\ proc # "panicked"
    /\ teardowns <= 1
    /\ CloseReturned
          => /\ teardowns = 1
             /\ dieClosed
             /\ listenClosed
             /\ watcherClosed

\* two calls of Close have returned
C16_Witness ==
    /\ \A k \in Closers : closePc[k] = "done"
    /\ teardowns = 1
    /\ proc = "running"

\* the session table is empty
TableEmpty == \A a \in Clients : incomingConnections[a] = NoConn

\* C17: once Close has closed the watcher, the session table eventually
\* becomes empty and stays empty.
C17_CloseEvictsAll == [](watcherClosed => <>[]TableEmpty)

\* the reads, and the writes, the watcher w holds on socket c
ReadsOn(w, c) == IF c \in 1..Len(w) THEN Len(w[c].readers) ELSE 0

WritesOn(w, c) == IF c \in 1..Len(w) THEN Len(w[c].writers) ELSE 0

\* C18: once WaitIO has returned an error and the switcher has returned, no
\* datagram of a client is accepted, no session is inserted and no read or
\* write is queued.
C18_ReactorFailureStops ==
    [][swPc = "stopped"
          => /\ nrecv' = nrecv
             /\ \A a \in Clients :
                   incomingConnections[a] = NoConn => incomingConnections'[a] = NoConn
             /\ \A c \in 1..Len(pending') :
                   /\ ReadsOn(pending', c) <= ReadsOn(pending, c)
                   /\ WritesOn(pending', c) <= WritesOn(pending, c)]_vars

\* C19: once ReadFrom on the listen socket has returned an error and the
\* ingress loop has ended, no datagram is received or forwarded any more:
\* nothing is read from the listen socket or from a next hop, nothing is
\* queued, dialled or written to the listen socket.
C19_ListenFailureStops ==
    [][pcIn = "done"
          => /\ UNCHANGED <<nrecv, nup, incomingConnections, pending, conns>>
             /\ lastRes'.out = << >>]_vars

\* the listen socket failed while a session had a read queued and a write
\* to send, and a next hop had a datagram to deliver
C19_Witness ==
    /\ pcIn = "done"
    /\ proc = "exited"
    /\ ~watcherClosed
    /\ nup < MaxUp
    /\ \E c \in 1..Len(pending) :
          /\ pending[c].readers # << >>
          /\ pending[c].writers # << >>
          /\ incomingConnections[conns[c].client] = c

EchoedBack(n) ==
    /\ n <= Len(sent)
    /\ \E j \in 1..Len(got) : got[j] = [to |-> sent[n].from, data |-> sent[n].data]

C22_KeyMismatch ==
    hopCrypter # crypterOut
    => /\ \A i \in 1..Len(wireUp) :
             decryptPacket(hopCrypter, wireUp[i].data).err = "errChecksum"
       /\ echoed = << >>
       /\ wire = << >>
       /\ got = << >>

\* two payloads, a non-empty one first, went through the relay to a next
\* hop with another key and are gone
C22_Witness ==
    /\ hopCrypter # crypterOut
    /\ Len(sent) = 2
    /\ sent[1].data # << >>
    /\ nrecv = 2
    /\ pcIn = "recv"
    /\ wireUp = << >>
    /\ \A c \in 1..Len(pending) : pending[c].writers = << >>
    /\ got = << >>

\* Run has passed the validation of --ci, and of --co
PastCI == startPc # "validate-ci"

PastCO == startPc \notin {"validate-ci", "validate-co"}

\* C23: ListenWithOptions returns an error and no listener when the listen
\* address does not resolve, the socket cannot be bound or no next hop is
\* configured; with an ingress or egress method outside the closed set the
\* start command exits with a non-zero status without calling
\* ListenWithOptions, and a listener is started only when none of this
\* happened.
C23_StartupValidation ==
    /\ (listenErr # "none"
          /\ (~osEnv.resolve \/ ~osEnv.bind \/ osEnv.nexthops = 0))
       => /\ listenErr # "nil"
          /\ listener = "nil"
          /\ startPc = "fatal"
          /\ exitCode # 0
    /\ ((PastCI /\ flagCI \notin allCryptoMethods)
          \/ (PastCO /\ flagCO \notin allCryptoMethods))
       => /\ startPc = "fatal"
          /\ exitCode # 0
          /\ listener = "nil"
          /\ listenErr = "none"
    /\ startPc = "started"
       => /\ listener = "Listener"
          /\ flagCI \in allCryptoMethods
          /\ flagCO \in allCryptoMethods
          /\ osEnv.resolve /\ osEnv.bind /\ osEnv.nexthops > 0

\* with valid methods, an address that resolves and a socket that is bound,
\* ListenWithOptions was called without a next hop and the command exited
C23_Witness ==
    /\ flagCI \in allCryptoMethods
    /\ flagCO \in allCryptoMethods
    /\ osEnv.resolve
    /\ osEnv.bind
    /\ osEnv.nexthops = 0
    /\ listenErr = "errNoNextHop"
    /\ listener = "nil"
    /\ startPc = "fatal"

\* C24: the defaults of --ci and --co are methods of the closed set, so the
\* start command run with the default flags passes both validations and
\* calls ListenWithOptions.
C24_DefaultsValid ==
    (flagCI = DefaultCI /\ flagCO = DefaultCO)
    => /\ PastCI => flagCI \in allCryptoMethods /\ startPc # "fatal"
       /\ PastCO => flagCO \in allCryptoMethods
       /\ startPc = "fatal" => listenErr # "none"

Undecodable == {"badtag", "short"}

\* C26: an installed onClientIn that returns nil makes clientIn return
\* before the lookup: no write, no dial, no entry; after an installed
\* onNextHopIn that returns nil nothing is written to the listen socket and
\* the read on the socket is queued again; a callback that is invoked gets
\* the decoded payload, and none is invoked for a datagram whose decode
\* failed.
C26_CallbackDrop ==
    [][/\ (nrecv' # nrecv /\ onClientIn = "drop" /\ lastCalled')
          => /\ pcIn' = "recv"
             /\ UNCHANGED <<incomingConnections, pending, conns>>
       /\ (lastRes'.called /\ onNextHopIn = "drop")
          => /\ lastRes'.out = << >>
             /\ \E i \in 1..Len(pending'[lastRes'.res.conn].readers) :
                   pending'[lastRes'.res.conn].readers[i].ctx = lastRes'.res.ctx
       /\ (nrecv' # nrecv /\ lastCalled') => lastArg' = EnginePayload
       /\ lastRes'.called => lastRes'.arg = EnginePayload
       /\ (nrecv' # nrecv /\ crypterIn # NoCrypt /\ lastKind' \in Undecodable)
          => ~lastCalled'
       /\ (crypterOut # NoCrypt
             /\ \E kind \in Undecodable :
                   lastRes'.res.buf = PeerFrame(crypterOut, kind))
          => ~lastRes'.called]_vars

\* C27: every buffer of a read, on the listen socket and in the watcher, is
\* 1500 bytes long; under a cipher a payload of at most 1484 bytes is
\* encoded to a frame 16 bytes longer, of at most 1500 bytes, and what the
\* next hop reads of that frame into its buffer decodes to the payload.
C27_MtuBudget ==
    /\ NewBuf = 1500
    /\ \A c \in 1..Len(pending) :
          \A i \in 1..Len(pending[c].readers) : pending[c].readers[i].buf = 1500
    /\ \A i \in 1..Len(wireUp) :
          LET p == sent[wireUp[i].seq].data
              frame == wireUp[i].data
          IN  (crypterOut # NoCrypt /\ Len(p) <= 1484)
              => /\ Len(frame) = Len(p) + 16
                 /\ Len(frame) <= 1500
                 /\ decryptPacket(hopCrypter, ReadInto(NewBuf, frame))
                       = [data |-> p, err |-> "nil"]
    /\ \A i \in 1..Len(echoed) : \E n \in 1..Len(sent) : echoed[i].data = sent[n].data

\* a payload of 1484 bytes is on its way to the next hop in a frame of 1500
\* bytes, and another one reached the echo server
C27_Witness ==
    /\ crypterOut # NoCrypt
    /\ \E i \in 1..Len(wireUp) :
          /\ Len(wireUp[i].data) = mtuLimit
          /\ Len(sent[wireUp[i].seq].data) = mtuLimit - headerSize
    /\ \E i \in 1..Len(echoed) : Len(echoed[i].data) = mtuLimit - headerSize
    /\ \E c \in 1..Len(pending) : pending[c].readers # << >>

\* C28: when the switcher handles a completion with an error for a client,
\* the step deletes at most that client's entry; every other client's entry,
\* every upstream socket and every request queued on another socket stay as
\* they were, on the failed socket only the completed request leaves the
\* watcher, and the switcher stays in its loop, ready for the next result
C28_ErrorIsolation ==
    [][lastRes'.res.err # "nil"
       => LET a == lastRes'.res.ctx
              c == lastRes'.res.conn
          IN  /\ \A b \in Clients \ {a} :
                    incomingConnections'[b] = incomingConnections[b]
              /\ incomingConnections'[a] \in {NoConn, incomingConnections[a]}
              /\ conns' = conns
              /\ Len(pending') = Len(pending)
              /\ \A d \in 1..Len(pending) :
                    d # c => pending'[d] = pending[d]
              /\ IF lastRes'.res.op = "read"
                 THEN /\ pending'[c].readers = Tail(pending[c].readers)
                      /\ pending'[c].writers = pending[c].writers
                 ELSE /\ pending'[c].writers = Tail(pending[c].writers)
                      /\ pending'[c].readers = pending[c].readers
              /\ swPc' = "wait"
              /\ proc' = "running"]_vars

\* client A's read failed and A's entry is gone while client B keeps its
\* entry, its socket and the read armed on it
C28_Witness ==
    /\ lastRes.res.err # "nil"
    /\ lastRes.res.ctx = "A"
    /\ incomingConnections["A"] = NoConn
    /\ incomingConnections["B"] # NoConn
    /\ conns[incomingConnections["B"]].client = "B"
    /\ pending[incomingConnections["B"]].readers # << >>

\* C29: for a datagram of a client without an entry clientIn goes through
\* three steps in this order.  The dial opens one new socket connected for
\* the client, with nothing queued on it, and inserts the client's entry for
\* it.  The next step queues one read on that socket with the client address
\* as context while no write is queued on it.  Only the step after that
\* queues the write of the datagram, on the same socket and with the same
\* context.  No other step of the engine queues a write on a socket, save the
\* write for a client that has an entry.
C29_NewSessionOrder ==
    [][/\ (pcIn = "dial" /\ pcIn' # "dial")
          => \/ /\ pcIn' = "recv"
                /\ conns' = conns
                /\ pending' = pending
                /\ incomingConnections' = incomingConnections
             \/ /\ pcIn' = "watch"
                /\ Len(conns') = Len(conns) + 1
                /\ inConn' = Len(conns')
                /\ conns'[inConn'].client = inRaddr
                /\ incomingConnections'[inRaddr] = inConn'
                /\ pending'[inConn'] = [readers |-> << >>, writers |-> << >>]
                /\ inRaddr' = inRaddr
       /\ (pcIn = "watch" /\ pcIn' # "watch")
          => /\ pcIn' = "send"
             /\ inConn' = inConn /\ inRaddr' = inRaddr /\ inData' = inData
             /\ pending[inConn].writers = << >>
             /\ pending'[inConn].writers = << >>
             /\ Len(pending'[inConn].readers) = Len(pending[inConn].readers) + 1
             /\ pending'[inConn].readers[Len(pending'[inConn].readers)].ctx = inRaddr
       /\ (pcIn = "send" /\ pcIn' # "send")
          => /\ pcIn' = "recv"
             /\ pending'[inConn].readers = pending[inConn].readers
             /\ IF SliceLen(inData) > 0
                THEN /\ Len(pending'[inConn].writers) = 1
                     /\ pending'[inConn].writers[1].ctx = inRaddr
                     /\ pending'[inConn].writers[1].buf = inData
                ELSE pending'[inConn].writers = << >>
       /\ \A c \in 1..Len(pending) :
             Len(pending'[c].writers) > Len(pending[c].writers)
             => pcIn \in {"send", "write"} /\ c = inConn]_vars

\* clientIn has returned from a datagram of a new client: the client's entry
\* names the socket, the read and the write are queued on it, both with the
\* client address as context
C29_Witness ==
    /\ pcIn = "recv"
    /\ incomingConnections["A"] = 1
    /\ Len(pending[1].readers) = 1
    /\ pending[1].readers[1].ctx = "A"
    /\ Len(pending[1].writers) = 1
    /\ pending[1].writers[1].ctx = "A"
    /\ pending[1].writers[1].seq = 1

\* C30: every request a step of the engine hands to the watcher, read or
\* write, from clientIn or from the switcher, has as its deadline the time of
\* the step plus the configured timeout; so no queued request is without a
\* deadline (the zero time) or has one further away than the timeout
C30_Deadlines ==
    [][\A c \in 1..Len(pending') :
          LET old == IF c <= Len(pending) THEN pending[c]
                     ELSE [readers |-> << >>, writers |-> << >>]
              InQueue(q, r) == \E j \in 1..Len(q) : q[j] = r
          IN  /\ \A i \in 1..Len(pending'[c].readers) :
                    LET r == pending'[c].readers[i]
                    IN  /\ ~InQueue(old.readers, r) => r.deadline = now' + Timeout
                        /\ r.deadline > 0
                        /\ r.deadline <= now' + Timeout
              /\ \A i \in 1..Len(pending'[c].writers) :
                    LET r == pending'[c].writers[i]
                    IN  /\ ~InQueue(old.writers, r) => r.deadline = now' + Timeout
                        /\ r.deadline > 0
                        /\ r.deadline <= now' + Timeout]_vars

\* after the clock has advanced, the only session holds a read the switcher armed
\* again and the write of a later datagram, both due one timeout from now
C30_Witness ==
    /\ now > 0
    /\ Len(conns) = 1
    /\ incomingConnections["A"] = 1
    /\ nup > 0
    /\ Len(pending[1].readers) = 1
    /\ pending[1].readers[1].deadline = now + Timeout
    /\ Len(pending[1].writers) = 1
    /\ pending[1].writers[1].seq = 2
    /\ pending[1].writers[1].deadline = now + Timeout

\* the calls between a Lock and its Unlock: one access to the map, and the
\* Unlock
HeldByClientIn == {"load", "Unlock", "addClient.store", "addClient.Unlock"}

HeldBySwitcher == {"removeClient.delete", "removeClient.Unlock"}

\* C31: a goroutine holds the mutex of the table only while it is at the
\* lookup, the insert or the delete, or at the Unlock after it; a step it
\* takes while it holds the mutex reads no datagram, dials and queues
\* nothing, calls neither the codec nor a callback and writes nothing; every
\* Lock is granted and every holder releases the mutex
C31_LockDiscipline ==
    /\ [](/\ (mu = "clientIn") <=> (inLine \in HeldByClientIn)
          /\ (mu = "switcher") <=> (swLine \in HeldBySwitcher)
          /\ mu \in {"free", "clientIn", "switcher"})
    /\ [][/\ (mu = "clientIn" /\ inLine' # inLine)
             => UNCHANGED <<conns, pending, inData, nrecv, lastRes, lastCalled>>
          /\ (mu = "switcher" /\ swLine' # swLine)
             => /\ UNCHANGED <<conns, pending, nup, lastRes, lastCalled>>
                /\ swRes' \in {swRes, NoRes.res}]_vars
    /\ (mu # "free") ~> (mu = "free")
    /\ (inLine \in {"Lock", "addClient.Lock"}) ~> (mu = "clientIn")
    /\ (swLine = "removeClient.Lock") ~> (mu = "switcher")

\* the switcher holds the mutex for its delete while clientIn, with a
\* session of its own just dialled, waits in the Lock of addClient
C31_Witness ==
    /\ mu = "switcher"
    /\ swLine = "removeClient.delete"
    /\ inLine = "addClient.Lock"
    /\ inConn = Len(conns)

\* C32: when Close has closed the listen socket and the ingress loop has
\* ended, Start has returned to its caller and the process that hosts the
\* listener goes on running
C32_StartReturns == (listenClosed /\ pcIn = "done") => proc = "running"

\* C33: an error completion on a socket removes the entry of its client only
\* when the entry names that socket; when the client has meanwhile got a
\* session on another socket, the entry of the newer session stays
C33_StaleCompletion ==
    [][(/\ lastRes'.res.err # "nil"
        /\ incomingConnections[lastRes'.res.ctx] # NoConn
        /\ incomingConnections[lastRes'.res.ctx] # lastRes'.res.conn)
       => incomingConnections'[lastRes'.res.ctx]
             = incomingConnections[lastRes'.res.ctx]]_vars

\* C34: whenever clientIn is not between the insert of a session and the
\* first read on its socket, every session in the table has exactly one read
\* queued on its socket, and every socket with a read queued is the socket
\* of a session in the table
C34_ArmedRead ==
    pcIn # "watch"
    => /\ \A a \in Clients :
             incomingConnections[a] # NoConn
             => Len(pending[incomingConnections[a]].readers) = 1
       /\ \A c \in 1..Len(pending) :
             pending[c].readers # << >>
             => \E a \in Clients : incomingConnections[a] = c

\* C35: a write is queued on a socket only while a session in the table
\* names that socket
C35_WriteIntoSession ==
    [][\A c \in 1..Len(pending') :
          Len(WritersOf(pending', c)) > Len(WritersOf(pending, c))
          => \E a \in Clients : incomingConnections[a] = c]_vars

\* C36: when net.Dial fails clientIn returns and nothing else happens: no
\* entry is inserted, no socket is added, no read and no write is queued.
\* The client still has no entry, so its next datagram that clientIn does
\* not drop goes to the dial again, and a dial that succeeds then connects
\* the client to a next hop of the list, whichever it is.
C36_DialFailure ==
    [][/\ (pcIn = "dial" /\ pcIn' = "recv")
          => /\ UNCHANGED <<incomingConnections, conns, pending>>
             /\ incomingConnections[inRaddr] = NoConn
             /\ inRaddr' = NoAddr
             /\ inData' = NilSlice
       /\ (pcIn = "recv" /\ pcIn' \in {"dial", "write"})
          => (pcIn' = "dial") <=> (incomingConnections[inRaddr'] = NoConn)
       /\ (pcIn = "dial" /\ pcIn' = "watch")
          => /\ Len(conns') = Len(conns) + 1
             /\ conns'[Len(conns')].hop \in NextHops
             /\ incomingConnections'[inRaddr] = Len(conns')]_vars

\* the dial for the client's first datagram failed, the dial for its second
\* datagram connected the client to the second next hop of the list
C36_Witness ==
    /\ crypterIn = NoCrypt
    /\ onClientIn # "drop"
    /\ nrecv = 2
    /\ pcIn = "watch"
    /\ Len(conns) = 1
    /\ conns[1].hop = 2
    /\ incomingConnections["A"] = 1
    /\ pending[1] = [readers |-> << >>, writers |-> << >>]

\* C37: when ListenWithOptions has returned an error, no socket it opened
\* is left open on the listen address: the address is free for the next call
C37_NothingLeftBehind ==
    (listener = "nil" /\ listenErr \notin {"nil", "none"}) => AddrFree

\* C38: every datagram the engine hands to the watcher for a next hop, every
\* datagram on its way to a next hop and every datagram written to the
\* listen socket is at most mtuLimit bytes long
C38_FrameFits ==
    /\ \A c \in 1..Len(pending) :
          \A i \in 1..Len(pending[c].writers) :
             SliceLen(pending[c].writers[i].buf) <= mtuLimit
    /\ \A i \in 1..Len(wireUp) : Len(wireUp[i].data) <= mtuLimit
    /\ \A i \in 1..Len(got) : Len(got[i].data) <= mtuLimit

\* C39: in the legacy listeners, when a read or a write on the connection
\* of a client completes with an error, the entry of that client is gone
\* from incomingConnections after the step
C39_LegacyEviction ==
    [][lastRes'.res.err # "nil"
       => incomingConnections'[conns[lastRes'.res.conn].client] = NoConn]_vars

====
